---- MODULE Spec2Model ----
(***************************************************************************)
(* Batch operation execution engine of batch-operations.js                 *)
(* (src/unnamed/part_007): the handler registry, the four operation        *)
(* handlers, BatchOperations.execute with its admission loop               *)
(* (_processBatchesInParallel), the per-batch task (processBatch) and the  *)
(* retry loop (_executeWithRetry), the event listeners (on, _emit),        *)
(* batchProcess and batchUpdateWithOptimalSize.                            *)
(*                                                                         *)
(* Spec runs one execute call, SpecBatchProcess one batchProcess call,     *)
(* SpecOptimal one batchUpdateWithOptimalSize call and SpecRegistry the    *)
(* calls of BatchOperationFactory.                                         *)
(*                                                                         *)
(* JavaScript runs each callback to completion: a step of the model is one *)
(* synchronous stretch of code between two suspension points (an await on  *)
(* a collaborator call, a backoff sleep, the 10 ms sleep of the admission  *)
(* loop).  Collaborators fail by throwing an Error carrying a message.     *)
(***************************************************************************)
EXTENDS Integers, Sequences, FiniteSets, TLC

\* ------------------------------------------------------------------ bounds
MaxItems == 3          \* longest item list of the scheduling scenarios
MaxHandlerItems == 2   \* longest item list of the handler scenarios
MaxConc == 2           \* largest maxConcurrent tried
MaxBatch == 2          \* largest batchSize tried
MaxRetry == 2          \* largest retryAttempts tried
MaxDescriptors == 3    \* longest descriptor list given to batchProcess
MaxRegistrations == 3  \* most register calls made after module initialisation
MaxOptimalItems == 11  \* longest item list given to batchUpdateWithOptimalSize
MaxOps == 2            \* most calls of MemoryBridge methods in a run
MaxTasks == 2          \* most tasks in the tasks file
MaxEdits == 1          \* most changes of the tasks file by others in a run

Calls == {1}
KindCalls == 1..MaxDescriptors   \* batchProcess makes one call per kind
BatchIds == 1..(MaxItems + MaxHandlerItems)   \* no call has more batches

VARIABLES
    config,            \* this.config of the BatchOperations instance
    profiling,         \* this.profiling
    metricsCollector,  \* "ok", or "throws": recordOperationMetrics fails
    handlers,          \* BatchOperationFactory.handlers: the value of each key
    handlerKeys,       \* BatchOperationFactory.handlers: its keys in insertion order
    factory,           \* the caller's calls of BatchOperationFactory so far
    eventListeners,    \* this.eventListeners: the listeners of each event
    calls,             \* the execute calls, each with its batch tasks
    job,               \* the batchProcess or batchUpdateWithOptimalSize call
                       \* that makes the execute calls
    memoryBridge       \* the MemoryBridge instance and what it works on

vars == <<config, profiling, metricsCollector, handlers, handlerKeys, factory,
          eventListeners, calls, job, memoryBridge>>

\* the instance's fields and the registry, which no call of the engine changes
engine == <<config, profiling, metricsCollector, eventListeners>>
registry == <<handlers, handlerKeys, factory>>

\* ------------------------------------------------------------------ items
NoId == -1             \* the record has no identifier field
Unset == -1            \* an option the caller did not give

\* A caller's item.  obj: a record (typeof item === 'object'), otherwise a
\* raw value whose value is id.  fate: what the collaborator call does for
\* it (succeeds, fails every time, or fails the first time only).  valid:
\* what options.validateItem does for it (answers true, a message string or
\* some other value, or throws).
MkItem(obj, id, fate, valid) ==
    [obj |-> obj, id |-> id, fate |-> fate, valid |-> valid]

Truthy(v) == v > 0     \* 0 and a missing field are falsy in JavaScript

\* ------------------------------------------------------------ item results
Succeeded(item) ==
    [success |-> TRUE, error |-> "", item |-> item]

\* BatchOperation.handleError
HandleError(message, item) ==
    [success |-> FALSE, error |-> message, item |-> item]

CollaboratorError == "collaborator failed"

\* The outcome of the nth collaborator call made for an item.
CollaboratorFails(item, nth) ==
    item.fate = "fail" \/ (item.fate = "flaky" /\ nth <= 1)

\* ---------------------------------------------------------------- registry
StandardKinds == {"create", "update", "delete", "custom"}
UserKinds == {"import", "abstract", "broken", "strict"}
Kinds == StandardKinds \cup UserKinds \cup {"nonexistent"}
NoHandler == "none"

\* The registrations of module initialisation (BatchOperationFactory.register
\* of the four standard handlers).
StandardHandlers ==
    [k \in Kinds |->
        CASE k = "create" -> "CreateOperation"
          [] k = "update" -> "UpdateOperation"
          [] k = "delete" -> "DeleteOperation"
          [] k = "custom" -> "CustomOperation"
          [] OTHER -> NoHandler]

\* Handler classes a caller registers: the base class itself (its execute
\* always throws), a subclass that calls the processor without a per-item
\* guard, one whose constructor throws and one whose validate rejects.
UserClass(k) ==
    CASE k = "import" -> "UnguardedOperation"
      [] k = "abstract" -> "BatchOperation"
      [] k = "broken" -> "ThrowingConstructor"
      [] k = "strict" -> "RejectingValidate"
      [] OTHER -> NoHandler

\* The keys of module initialisation, in the order of the register calls.
StandardKeys == <<"create", "update", "delete", "custom">>

\* A type argument that is the empty string, and one that is not a string.
EmptyType == ""
NotAString == "<not a string>"

\* handlers.set(type, handlerClass): an existing key keeps its value
RegisterKeepFirst(reg, kind, class) ==
    IF reg[kind] # NoHandler THEN reg ELSE [reg EXCEPT ![kind] = class]

\* handlers.set(type, handlerClass): the value of the key
Register(reg, kind, class) == [reg EXCEPT ![kind] = class]

\* handlers.set(type, handlerClass): a new key goes last, a key already
\* there keeps its place
RegisterKey(keys, kind) ==
    IF \E i \in DOMAIN keys : keys[i] = kind THEN keys ELSE Append(keys, kind)

\* BatchOperationFactory.register without the check of the handler class
RegisterCallAnyHandler(reg, keys, type, handlerClass) ==
    IF type = EmptyType \/ type = NotAString
    THEN [threw |-> TRUE, error |-> "Operation type must be a string",
          handlers |-> reg, keys |-> keys]
    ELSE [threw |-> FALSE, error |-> "",
          handlers |-> Register(reg, type, handlerClass),
          keys |-> RegisterKey(keys, type)]

\* BatchOperationFactory.register: an absent handler class is NoHandler
RegisterCall(reg, keys, type, handlerClass) ==
    IF type = EmptyType \/ type = NotAString
    THEN [threw |-> TRUE, error |-> "Operation type must be a string",
          handlers |-> reg, keys |-> keys]
    ELSE IF handlerClass = NoHandler
    THEN [threw |-> TRUE, error |-> "Handler class is required",
          handlers |-> reg, keys |-> keys]
    ELSE [threw |-> FALSE, error |-> "",
          handlers |-> Register(reg, type, handlerClass),
          keys |-> RegisterKey(keys, type)]

\* BatchOperationFactory.getHandler
GetHandlerCall(reg, keys, type) ==
    IF \E i \in DOMAIN keys : keys[i] = type
    THEN [threw |-> FALSE, error |-> "", value |-> reg[type]]
    ELSE [threw |-> TRUE, error |-> "No handler registered for operation type",
          value |-> NoHandler]

\* BatchOperationFactory.getRegisteredTypes
GetRegisteredTypes(keys) == keys

\* BatchOperationFactory.hasHandler
HasHandlerAlways(reg, kind) == TRUE

HasHandler(reg, kind) == reg[kind] # NoHandler

\* --------------------------------------------------------------- listeners
Events == {"operation:start", "operation:complete", "operation:error",
           "batch:start", "batch:complete", "batch:error"}

\* this.eventListeners after construction
NoListeners == [e \in Events |-> <<>>]

\* BatchOperations.on: a listener is "ok" or "throws" (an Error) when called
On(listeners, event, listener) ==
    [listeners EXCEPT ![event] = Append(@, listener)]

ListenerError == "listener failed"

\* BatchOperations._emit over the listeners of an event: how many of them
\* are called, and whether an exception leaves _emit.
EmitEventNoCatch(list) ==
    LET throwing == {i \in DOMAIN list : list[i] = "throws"} IN
    IF throwing = {} THEN [called |-> Len(list), escaped |-> FALSE]
    ELSE [called |-> CHOOSE i \in throwing : \A j \in throwing : i <= j,
          escaped |-> TRUE]

EmitEvent(list) == [called |-> Len(list), escaped |-> FALSE]

\* ---------------------------------------------------------------- handlers
MissingCollaborator(class) ==
    CASE class = "CreateOperation" -> "Repository with create() method is required"
      [] class = "UpdateOperation" -> "Repository with update() method is required"
      [] class = "DeleteOperation" -> "Repository with delete() method is required"
      [] OTHER -> "Processor function is required"

\* The identifier a handler reads from an item: item[idField] for Update
\* (undefined on a raw value), the raw value itself for Delete.
IdOf(class, item) ==
    IF item.obj THEN item.id
    ELSE IF class = "DeleteOperation" THEN item.id ELSE NoId

\* The answer of options.validateItem turned into a result's error.
ValidationError(item) ==
    CASE item.valid = "msg" -> "invalid item"
      [] item.valid = "throws" -> "validator threw"
      [] OTHER -> "Validation failed"

\* What a handler decides about an item before any collaborator call: ""
\* when the item goes on to the collaborator, otherwise the error of the
\* failed result it pushes.
PreCheck(class, opts, item) ==
    CASE class = "CreateOperation" ->
            IF opts.validateItem /\ item.valid # "true"
            THEN ValidationError(item) ELSE ""
      [] class = "UpdateOperation" ->
            IF ~Truthy(IdOf(class, item)) THEN "Item is missing id field"
            ELSE IF opts.validateItem /\ item.valid # "true"
            THEN ValidationError(item) ELSE ""
      [] class = "DeleteOperation" ->
            IF ~Truthy(IdOf(class, item)) THEN "Item is missing id field" ELSE ""
      [] OTHER -> ""

\* The handler's loop from item pos on, up to the next suspension point: it
\* pushes the results that need no collaborator call and stops at the first
\* item whose collaborator call it awaits, or returns the results.
RECURSIVE Advance(_, _, _, _, _)
Advance(class, opts, batch, pos, acc) ==
    IF pos > Len(batch)
    THEN [st |-> "returned", pos |-> pos, acc |-> acc, err |-> ""]
    ELSE LET e == PreCheck(class, opts, batch[pos]) IN
         IF e = ""
         THEN [st |-> "awaiting", pos |-> pos, acc |-> acc, err |-> ""]
         ELSE Advance(class, opts, batch, pos + 1,
                      Append(acc, HandleError(e, batch[pos])))

Threw(message) == [st |-> "threw", pos |-> 0, acc |-> <<>>, err |-> message]

\* No attempt was made: _executeWithRetry throws its undefined lastError.
ThrewUndefined == [st |-> "undefined", pos |-> 0, acc |-> <<>>, err |-> ""]

\* handler.execute(batch) up to its first suspension point.
Invoke(class, opts, batch) ==
    IF class = "BatchOperation"
    THEN Threw("execute() must be implemented by subclasses")
    ELSE IF ~opts.hasCollaborator THEN Threw(MissingCollaborator(class))
    ELSE Advance(class, opts, batch, 1, <<>>)

\* The awaited collaborator call for batch[pos] has settled: the handler
\* pushes the item's result and runs on; a handler without a per-item guard
\* lets the collaborator's error escape.
AfterCallNoGuard(class, opts, batch, pos, acc, nth) ==
    LET item == batch[pos] IN
    IF CollaboratorFails(item, nth) THEN Threw(CollaboratorError)
    ELSE Advance(class, opts, batch, pos + 1, Append(acc, Succeeded(item)))

AfterCall(class, opts, batch, pos, acc, nth) ==
    LET item == batch[pos] IN
    IF CollaboratorFails(item, nth)
    THEN IF class = "UnguardedOperation" THEN Threw(CollaboratorError)
         ELSE Advance(class, opts, batch, pos + 1,
                      Append(acc, HandleError(CollaboratorError, item)))
    ELSE Advance(class, opts, batch, pos + 1, Append(acc, Succeeded(item)))

\* BatchOperation.validate, and the override of the rejecting subclass
Validate(class, items) ==
    IF class = "RejectingValidate" THEN FALSE ELSE Len(items) > 0

\* ------------------------------------------------------------------ config
\* BATCH_OPERATIONS_CONFIG
DefaultMaxConcurrent == 5
DefaultBatchSize == 50
DefaultRetryAttempts == 3
DefaultRetryDelay == 1000

DefaultConfig ==
    [enabled |-> TRUE, maxConcurrent |-> DefaultMaxConcurrent,
     batchSize |-> DefaultBatchSize, retryAttempts |-> DefaultRetryAttempts,
     retryDelay |-> DefaultRetryDelay]

NoOptions ==
    [maxConcurrent |-> Unset, batchSize |-> Unset, retryAttempts |-> Unset,
     retryDelay |-> Unset, hasCollaborator |-> TRUE, validateItem |-> FALSE]

Override(given, default) == IF given = Unset THEN default ELSE given

\* constructor: this.config = { ...BATCH_OPERATIONS_CONFIG, ...options }
ConstructConfig(options) ==
    [DefaultConfig EXCEPT
        !.maxConcurrent = Override(options.maxConcurrent, @),
        !.batchSize = Override(options.batchSize, @),
        !.retryAttempts = Override(options.retryAttempts, @),
        !.retryDelay = Override(options.retryDelay, @)]

\* { ...options, ...this.config }
MergeOptionsConfigWins(cfg, options) ==
    [maxConcurrent |-> cfg.maxConcurrent,
     batchSize |-> cfg.batchSize,
     retryAttempts |-> cfg.retryAttempts,
     retryDelay |-> cfg.retryDelay,
     hasCollaborator |-> options.hasCollaborator,
     validateItem |-> options.validateItem]

\* { ...this.config, ...options }
MergeOptions(cfg, options) ==
    [maxConcurrent |-> Override(options.maxConcurrent, cfg.maxConcurrent),
     batchSize |-> Override(options.batchSize, cfg.batchSize),
     retryAttempts |-> Override(options.retryAttempts, cfg.retryAttempts),
     retryDelay |-> Override(options.retryDelay, cfg.retryDelay),
     hasCollaborator |-> options.hasCollaborator,
     validateItem |-> options.validateItem]

\* What the merge leaves in this.config: Object.assign(this.config, options)
ConfigAfterMergeAssign(cfg, options) ==
    [cfg EXCEPT
        !.maxConcurrent = Override(options.maxConcurrent, @),
        !.batchSize = Override(options.batchSize, @),
        !.retryAttempts = Override(options.retryAttempts, @),
        !.retryDelay = Override(options.retryDelay, @)]

\* What the merge leaves in this.config: the spread builds a new object
ConfigAfterMerge(cfg, options) == cfg

\* batchProcess: { ...mergedOptions, ...(options[type] || {}) }, for the
\* sizes a kind's options may give
MergeKindOptions(merged, kindOptions) ==
    [merged EXCEPT
        !.maxConcurrent = Override(kindOptions.maxConcurrent, @),
        !.batchSize = Override(kindOptions.batchSize, @),
        !.retryAttempts = Override(kindOptions.retryAttempts, @),
        !.retryDelay = Override(kindOptions.retryDelay, @)]

\* --------------------------------------------------------------- summaries
CountSuccess(results) ==
    Cardinality({i \in DOMAIN results : results[i].success})

CountFailure(results) ==
    Cardinality({i \in DOMAIN results : ~results[i].success})

DisabledSummary ==
    [success |-> FALSE, error |-> "Batch operations are disabled",
     operations |-> 0, succeeded |-> 0, failed |-> 0,
     hasResults |-> FALSE, results |-> <<>>]

EmptySummary ==
    [success |-> TRUE, error |-> "",
     operations |-> 0, succeeded |-> 0, failed |-> 0,
     hasResults |-> FALSE, results |-> <<>>]

\* the summary of execute's catch block
FailureSummary(message, items) ==
    [success |-> FALSE, error |-> message,
     operations |-> 0, succeeded |-> 0, failed |-> Len(items),
     hasResults |-> FALSE, results |-> <<>>]

SuccessSummary(combined) ==
    [success |-> TRUE, error |-> "",
     operations |-> Len(combined), succeeded |-> CountSuccess(combined),
     failed |-> CountFailure(combined),
     hasResults |-> TRUE, results |-> combined]

NoSummary ==
    [success |-> FALSE, error |-> "", operations |-> 0, succeeded |-> 0,
     failed |-> 0, hasResults |-> FALSE, results |-> <<>>]

\* ------------------------------------------------------------ partitioning
Min(a, b) == IF a < b THEN a ELSE b

\* items.slice(from, to), positions counted from 0
\* items.slice(from): the end of the slice left out
SliceToEnd(items, from, to) == SubSeq(items, from + 1, Len(items))

Slice(items, from, to) == SubSeq(items, from + 1, Min(to, Len(items)))

\* for (let i = 0; i < items.length; i += batchSize) batches.push(slice)
RECURSIVE PartitionFullOnly(_, _, _)
PartitionFullOnly(items, i, batchSize) ==
    IF i + batchSize <= Len(items)
    THEN <<Slice(items, i, i + batchSize)>>
         \o PartitionFullOnly(items, i + batchSize, batchSize)
    ELSE <<>>

RECURSIVE Partition(_, _, _)
Partition(items, i, batchSize) ==
    IF i < Len(items)
    THEN <<Slice(items, i, i + batchSize)>> \o Partition(items, i + batchSize, batchSize)
    ELSE <<>>

\* batchResults.flat()
RECURSIVE Flat(_)
Flat(slots) ==
    IF Len(slots) = 0 THEN <<>>
    ELSE Head(slots).val \o Flat(Tail(slots))

\* ------------------------------------------------------------------- calls
NewTask(batch) ==
    [pc |-> "new", attempt |-> 0, invocations |-> 0, pos |-> 0, acc |-> <<>>,
     out |-> Threw(""), calls |-> [i \in 1..Len(batch) |-> 0],
     answered |-> [i \in 1..Len(batch) |-> 0], backoffs |-> 0,
     evStart |-> 0, evComplete |-> 0, evError |-> 0, order |-> 0]

\* An execute call the caller is about to make.
NewCall(kind, items, options) ==
    [pc |-> "idle", kind |-> kind, items |-> items, options |-> options,
     opts |-> MergeOptions(DefaultConfig, options), class |-> NoHandler,
     batches |-> <<>>, results |-> <<>>, tasks |-> <<>>,
     active |-> 0, nextBatchIndex |-> 0, finished |-> 0,
     summary |-> NoSummary, thrown |-> "",
     constructed |-> 0, metricsCalls |-> 0,
     evBatchStart |-> 0, evBatchComplete |-> 0, evBatchError |-> 0,
     heard |-> [e \in Events |-> 0]]

\* this._emit(event, data) within a call: heard counts the listeners called
Emit(cr, event) ==
    [cr EXCEPT !.heard[event] = @ + EmitEvent(eventListeners[event]).called]

Escapes(event) == EmitEvent(eventListeners[event]).escaped

Returned(cr, summary) == [cr EXCEPT !.pc = "returned", !.summary = summary]

Thrown(cr, message) == [cr EXCEPT !.pc = "thrown", !.thrown = message]

\* execute's catch block: emit batch:error, return the failure summary
Caught(cr, message) ==
    LET told == Emit([cr EXCEPT !.evBatchError = @ + 1], "batch:error") IN
    IF Escapes("batch:error") THEN Thrown(told, ListenerError)
    ELSE Returned(told, FailureSummary(message, cr.items))

\* !Array.isArray(items) || items.length === 0
NothingToProcessNever(items) == FALSE

NothingToProcess(items) == Len(items) = 0

\* execute up to its first suspension point
ExecuteCall(cr) ==
    IF ~config.enabled THEN Returned(cr, DisabledSummary)
    ELSE IF ~HasHandler(handlers, cr.kind) THEN Thrown(cr, "Unknown operation type")
    ELSE IF NothingToProcess(cr.items) THEN Returned(cr, EmptySummary)
    ELSE
      LET opts == MergeOptions(config, cr.options)
          class == handlers[cr.kind]
          started == Emit([cr EXCEPT !.opts = opts, !.evBatchStart = @ + 1],
                          "batch:start")
          built == [started EXCEPT !.class = class, !.constructed = @ + 1]
          batches == Partition(cr.items, 0, opts.batchSize)
      IN
      IF Escapes("batch:start") THEN Caught(started, ListenerError)
      ELSE IF class = "ThrowingConstructor" THEN Caught(started, "constructor failed")
      ELSE IF ~Validate(class, cr.items) THEN Caught(built, "Items validation failed")
      ELSE IF opts.batchSize < 1 THEN [built EXCEPT !.pc = "hung"]
      ELSE [built EXCEPT
              !.pc = "admit",
              !.batches = batches,
              !.results = [k \in 1..Len(batches) |-> [writes |-> 0, val |-> <<>>]],
              !.tasks = [k \in 1..Len(batches) |-> NewTask(batches[k])]]

\* ---------------------------------------------------------- the batch task
\* _executeWithRetry: sleep and try again after a failed attempt?
ShouldRetryAfterLast(attempt, maxAttempts) == attempt <= maxAttempts

ShouldRetry(attempt, maxAttempts) == attempt < maxAttempts

\* _executeWithRetry: for (let attempt = 1; attempt <= maxAttempts; attempt++)
AttemptAllowedOneLess(attempt, maxAttempts) == attempt < maxAttempts

AttemptAllowed(attempt, maxAttempts) == attempt <= maxAttempts

\* processBatch's catch block: a failed result for every item of the batch
FailBatchGeneric(batch, message) ==
    [i \in 1..Len(batch) |-> HandleError("Batch failed", batch[i])]

FailBatch(batch, message) ==
    [i \in 1..Len(batch) |-> HandleError(message, batch[i])]

\* results[batchIndex] = value
StoreResultPush(results, batchIndex, value) ==
    LET free == {k \in DOMAIN results : results[k].writes = 0}
        slot == CHOOSE k \in free : \A j \in free : k <= j
    IN [results EXCEPT ![slot] = [writes |-> @.writes + 1, val |-> value]]

\* results[0] = value
StoreResultFirstSlot(results, batchIndex, value) ==
    [results EXCEPT ![1] = [writes |-> @.writes + 1, val |-> value]]

StoreResult(results, batchIndex, value) ==
    [results EXCEPT ![batchIndex] = [writes |-> @.writes + 1, val |-> value]]

\* The next attempt of _executeWithRetry's loop for batch b: fn() is invoked
\* and runs to its first suspension point.
\* The handler makes the collaborator call for the item at pos and awaits
\* it: count holds the calls begun for each item of the batch.
BeginCallAndRest(count, pos) ==
    [i \in DOMAIN count |-> IF i >= pos THEN count[i] + 1 ELSE count[i]]

BeginCall(count, pos) == [count EXCEPT ![pos] = @ + 1]

StartInvocation(cr, b, t) ==
    IF ~AttemptAllowed(t.attempt + 1, cr.opts.retryAttempts)
    THEN [t EXCEPT !.attempt = @ + 1, !.pc = "settled", !.out = ThrewUndefined]
    ELSE
      LET out == Invoke(cr.class, cr.opts, cr.batches[b])
          t1 == [t EXCEPT !.attempt = @ + 1, !.invocations = @ + 1,
                          !.pos = out.pos, !.acc = out.acc, !.out = out]
      IN IF out.st = "awaiting"
         THEN [t1 EXCEPT !.pc = "awaiting", !.calls = BeginCall(@, out.pos)]
         ELSE [t1 EXCEPT !.pc = "settled"]

\* The handler's promise has settled with t.out: the rest of
\* _executeWithRetry's iteration and of processBatch.
\* processBatch's catch block and the active-- after it
BatchCatch(cr, b, t, message) ==
    LET stored == [cr EXCEPT
                     !.results = StoreResult(@, b, FailBatch(cr.batches[b], message))]
        told == Emit(stored, "operation:error")
    IN
    IF Escapes("operation:error")
    THEN [told EXCEPT !.tasks[b] = [t EXCEPT !.pc = "crashed", !.evError = @ + 1]]
    ELSE [told EXCEPT
            !.tasks[b] = [t EXCEPT !.pc = "done", !.evError = @ + 1,
                                   !.order = cr.finished + 1],
            !.finished = @ + 1,
            !.active = @ - 1]

\* return await fn(): the attempt ends the loop when fn's promise resolves,
\* whatever the results it resolves with
FnResolvedAllSucceeded(out) ==
    out.st = "returned" /\ \A i \in DOMAIN out.acc : out.acc[i].success

FnResolved(out) == out.st = "returned"

Settle(cr, b, t) ==
    CASE FnResolved(t.out) ->
            LET stored == [cr EXCEPT !.results = StoreResult(@, b, t.out.acc)]
                told == Emit(stored, "operation:complete")
            IN
            IF Escapes("operation:complete")
            THEN BatchCatch(told, b, [t EXCEPT !.evComplete = @ + 1], ListenerError)
            ELSE [told EXCEPT
                    !.tasks[b] = [t EXCEPT !.pc = "done", !.evComplete = @ + 1,
                                           !.order = cr.finished + 1],
                    !.finished = @ + 1,
                    !.active = @ - 1]
      [] ~FnResolved(t.out) /\ t.out.st = "undefined" ->
            \* error.message of undefined throws inside the catch block
            [cr EXCEPT !.tasks[b] = [t EXCEPT !.pc = "crashed"]]
      [] ~FnResolved(t.out) /\ t.out.st # "undefined"
            /\ ShouldRetry(t.attempt, cr.opts.retryAttempts) ->
            [cr EXCEPT !.tasks[b] = [t EXCEPT !.pc = "backoff", !.backoffs = @ + 1]]
      [] OTHER ->
            BatchCatch(cr, b, t, t.out.err)

\* ------------------------------------------------------ the admission loop
\* while (active < maxConcurrent && nextBatchIndex < batches.length)
CanAdmitOneMore(cr) ==
    cr.active <= cr.opts.maxConcurrent /\ cr.nextBatchIndex < Len(cr.batches)

CanAdmitWhilePending(cr) == cr.nextBatchIndex < Len(cr.batches)

CanAdmit(cr) ==
    cr.active < cr.opts.maxConcurrent /\ cr.nextBatchIndex < Len(cr.batches)

\* if (active >= maxConcurrent || nextBatchIndex >= batches.length)
ShouldWait(cr) ==
    cr.active >= cr.opts.maxConcurrent \/ cr.nextBatchIndex >= Len(cr.batches)

\* while (nextBatchIndex < batches.length || active > 0)
LoopConditionPendingOnly(cr) == cr.nextBatchIndex < Len(cr.batches)

LoopConditionActiveOnly(cr) == cr.active > 0

LoopCondition(cr) ==
    cr.nextBatchIndex < Len(cr.batches) \/ cr.active > 0

\* startTime = this.profiling ? Date.now() : null: the metrics are
\* recorded if (startTime)
StartTimeSetAlways == TRUE

StartTimeSet == profiling

\* No call is inside a synchronous stretch: callbacks run one at a time.
Suspended == \A d \in DOMAIN calls : calls[d].pc # "admit"

\* ------------------------------------------------------------ batchProcess
\* A descriptor { type, data }: a missing type is "", data is an item.
MkOp(type, data) == [type |-> type, data |-> data]

\* !op.data is false: a record, or a raw value that is not 0 or undefined
DataTruthy(data) == data.obj \/ Truthy(data.id)

\* !op.type: the data is not looked at
MalformedTypeOnly(op) == op.type = ""

\* !op.type || !op.data
Malformed(op) == op.type = "" \/ ~DataTruthy(op.data)

\* The grouping loop from descriptor i on: operationsByType as the list of
\* its entries in insertion order, or the throw at a malformed descriptor.
RECURSIVE GroupByType(_, _, _)
GroupByType(operations, i, groups) ==
    IF i > Len(operations) THEN [ok |-> TRUE, groups |-> groups]
    ELSE
      LET op == operations[i]
          at == {g \in DOMAIN groups : groups[g].type = op.type}
      IN
      IF Malformed(op) THEN [ok |-> FALSE, groups |-> groups]
      ELSE IF at = {}
      THEN GroupByType(operations, i + 1,
                       Append(groups, [type |-> op.type, items |-> <<op.data>>]))
      ELSE GroupByType(operations, i + 1,
                       [groups EXCEPT ![CHOOSE g \in at : TRUE].items
                                          = Append(@, op.data)])

NoJob ==
    [pc |-> "none", op |-> "none", operations |-> <<>>, items |-> <<>>,
     options |-> NoOptions, perKind |-> [k \in Kinds |-> NoOptions],
     ctor |-> NoOptions, call |-> "none",
     groups |-> <<>>, collected |-> <<>>,
     metricsCalls |-> 0, phase |-> "none", testDuration |-> 0,
     summary |-> NoSummary, thrown |-> ""]

\* A batchProcess call the caller is about to make.
NewJob(operations, options) ==
    [NoJob EXCEPT !.pc = "idle", !.op = "batchProcess",
                  !.operations = operations, !.options = options]

\* A batchUpdateWithOptimalSize call the caller is about to make.
NewOptimalJob(items, options) ==
    [NoJob EXCEPT !.pc = "idle", !.op = "batchUpdateWithOptimalSize",
                  !.items = items, !.options = options]

JobReturned(j, summary) == [j EXCEPT !.pc = "returned", !.summary = summary]

\* allResults.push(...opResult.results) of the calls in the order they
\* returned: a summary without results adds nothing.
RECURSIVE MergeResults(_, _)
MergeResults(cs, collected) ==
    IF Len(collected) = 0 THEN <<>>
    ELSE (IF cs[Head(collected)].summary.hasResults
          THEN cs[Head(collected)].summary.results ELSE <<>>)
         \o MergeResults(cs, Tail(collected))

\* What a step of an execute call means to the batchProcess call that
\* made it: a call that returned runs the callback after its await, and
\* once every execute call has been started batchProcess awaits them all.
JobAfter(j, cs) ==
    IF j.pc \notin {"launching", "awaiting"} THEN j
    ELSE
      LET seen == {j.collected[k] : k \in DOMAIN j.collected}
          newly == {d \in DOMAIN cs : cs[d].pc = "returned" /\ d \notin seen}
      IN
      [j EXCEPT
         !.collected = IF newly = {} THEN @
                       ELSE Append(@, CHOOSE d \in newly : TRUE),
         !.pc = IF \A d \in DOMAIN cs : cs[d].pc \notin {"idle", "admit"}
                THEN "awaiting" ELSE @]

\* batchProcess is inside its synchronous stretch, or a rejected execute
\* call is about to settle its Promise.all: both run before any timer or
\* collaborator callback.
JobRunning ==
    \/ job.pc = "launching"
    \/ (job.pc = "awaiting" /\ \E d \in DOMAIN calls : calls[d].pc = "thrown")

Settled == Suspended /\ ~JobRunning

Frame ==
    /\ UNCHANGED <<engine, registry, memoryBridge>>
    /\ job' = JobAfter(job, calls')

\* batchProcess is called: the checks, the grouping loop and the map over
\* the entries that starts an execute call per kind
BatchProcess ==
    LET grouped == GroupByType(job.operations, 1, <<>>)
        merged == MergeOptions(config, job.options)
    IN
    /\ job.op = "batchProcess"
    /\ job.pc = "idle"
    /\ IF ~config.enabled
       THEN job' = JobReturned(job, DisabledSummary) /\ calls' = calls
       ELSE IF NothingToProcess(job.operations)
       THEN job' = JobReturned(job, EmptySummary) /\ calls' = calls
       ELSE IF ~grouped.ok
       THEN /\ job' = JobReturned(job,
                         FailureSummary("Each operation must have a type and data",
                                        job.operations))
            /\ calls' = calls
       ELSE /\ job' = [job EXCEPT !.pc = "launching", !.groups = grouped.groups]
            /\ calls' = [c \in 1..Len(grouped.groups) |->
                            NewCall(grouped.groups[c].type,
                                    grouped.groups[c].items,
                                    MergeKindOptions(merged,
                                        job.perKind[grouped.groups[c].type]))]
    /\ config' = IF config.enabled /\ ~NothingToProcess(job.operations)
                 THEN ConfigAfterMerge(config, job.options) ELSE config
    /\ UNCHANGED <<profiling, metricsCollector, eventListeners, registry, memoryBridge>>

\* await Promise.all(promises) settles: the catch block when an execute
\* call threw, otherwise the merged summary and the metrics
BatchProcessSettles ==
    LET thrown == {d \in DOMAIN calls : calls[d].pc = "thrown"}
        all == MergeResults(calls, job.collected)
        measured == IF StartTimeSet THEN [job EXCEPT !.metricsCalls = @ + 1] ELSE job
    IN
    /\ job.op = "batchProcess"
    /\ job.pc = "awaiting"
    /\ Suspended
    /\ \A d \in DOMAIN calls : calls[d].pc \in {"returned", "thrown"} \/ thrown # {}
    /\ job' = IF thrown # {}
              THEN JobReturned(job,
                      FailureSummary(calls[CHOOSE d \in thrown : TRUE].thrown,
                                     job.operations))
              ELSE IF StartTimeSet /\ metricsCollector = "throws"
              THEN JobReturned(measured,
                      FailureSummary("metrics failed", job.operations))
              ELSE JobReturned(measured, SuccessSummary(all))
    /\ UNCHANGED <<engine, registry, calls, memoryBridge>>

\* BatchOperations.execute is called
\* ---------------------------------------------- batchUpdateWithOptimalSize
OptimalThreshold == 10       \* if (items.length < 10)
SampleLimit == 5             \* Math.min(5, items.length)
TargetBatchTimeMs == 500
TargetTotalTimeMs == 5000
MinBatchSize == 5
MaxBatchSize == 100

Max(a, b) == IF a > b THEN a ELSE b

\* Math.round(num / den): the nearest integer, a half rounded up
RoundDiv(num, den) ==
    IF den > 0 THEN (2 * num + den) \div (2 * den)
    ELSE (2 * (0 - num) + (0 - den)) \div (2 * (0 - den))

\* Math.ceil(num / den) for a positive den
CeilDiv(num, den) == 0 - ((0 - num) \div den)

\* optimalBatchSize from the time the sample took: itemTimeMs is
\* testDuration / sampleSize, and 500 / 0 is Infinity
OptimalBatchSize(testDuration, sampleSize) ==
    IF testDuration = 0 THEN Max(MinBatchSize, MaxBatchSize)
    ELSE Max(MinBatchSize,
             Min(MaxBatchSize,
                 RoundDiv(TargetBatchTimeMs * sampleSize, testDuration)))

\* Math.min(this.config.maxConcurrent, Math.ceil(...)) without the
\* Math.max(1, ...) around it
OptimalConcurrencyNoFloor(testDuration, sampleSize, total, maxConcurrent) ==
    Min(maxConcurrent,
        CeilDiv(testDuration * total, sampleSize * TargetTotalTimeMs))

\* optimalConcurrency from the estimated time of the whole job
OptimalConcurrency(testDuration, sampleSize, total, maxConcurrent) ==
    Max(1, Min(maxConcurrent,
               CeilDiv(testDuration * total, sampleSize * TargetTotalTimeMs)))

\* Skip optimization if small batch: never
SkipOptimizationNever(items) == FALSE

\* Skip optimization if small batch: if (items.length < 10)
SkipOptimization(items) == Len(items) < OptimalThreshold

\* the items of the run after the sample: the items after the sample only
FullRunItemsRest(items, sampleSize) == Slice(items, sampleSize, Len(items))

\* the items of the run after the sample: this.batchUpdate(items, ...)
FullRunItems(items, sampleSize) == items

\* batchUpdate(items, options)
BatchUpdate(items, options) == NewCall("update", items, options)

\* batchUpdateWithOptimalSize is called: a short list goes straight to
\* batchUpdate, otherwise the sample run is started
BatchUpdateWithOptimalSize ==
    LET sampleSize == Min(SampleLimit, Len(job.items)) IN
    /\ job.op = "batchUpdateWithOptimalSize"
    /\ job.pc = "idle"
    /\ IF SkipOptimization(job.items)
       THEN /\ calls' = <<BatchUpdate(job.items, job.options)>>
            /\ job' = [job EXCEPT !.pc = "launching", !.phase = "direct"]
       ELSE /\ calls' = <<BatchUpdate(Slice(job.items, 0, sampleSize),
                                      [job.options EXCEPT !.batchSize = sampleSize,
                                                          !.maxConcurrent = 1])>>
            /\ job' = [job EXCEPT !.pc = "launching", !.phase = "sample"]
    /\ UNCHANGED <<engine, registry, memoryBridge>>

\* the awaited sample run has settled after testDuration milliseconds: the
\* sizes are derived and the full run is started, or the catch block
\* starts it with the caller's options
SampleSettles(testDuration) ==
    LET sampleSize == Min(SampleLimit, Len(job.items))
        sized == [job.options EXCEPT
                    !.batchSize = OptimalBatchSize(testDuration, sampleSize),
                    !.maxConcurrent =
                        OptimalConcurrency(testDuration, sampleSize,
                                           Len(job.items), config.maxConcurrent)]
    IN
    /\ job.op = "batchUpdateWithOptimalSize"
    /\ job.pc = "awaiting"
    /\ job.phase = "sample"
    /\ Suspended
    /\ calls[1].pc \in {"returned", "thrown"}
    /\ IF calls[1].pc = "thrown"
       THEN /\ calls' = Append(calls, BatchUpdate(job.items, job.options))
            /\ job' = [job EXCEPT !.pc = "launching", !.phase = "fallback",
                                  !.testDuration = testDuration]
       ELSE /\ calls' = Append(calls,
                           BatchUpdate(FullRunItems(job.items, sampleSize), sized))
            /\ job' = [job EXCEPT !.pc = "launching", !.phase = "full",
                                  !.testDuration = testDuration]
    /\ UNCHANGED <<engine, registry, memoryBridge>>

\* the batchUpdate call whose promise batchUpdateWithOptimalSize returns
\* has settled
OptimalSizeSettles ==
    LET last == calls[Len(calls)] IN
    /\ job.op = "batchUpdateWithOptimalSize"
    /\ job.pc = "awaiting"
    /\ job.phase \in {"direct", "full", "fallback"}
    /\ Suspended
    /\ last.pc \in {"returned", "thrown"}
    /\ job' = IF last.pc = "returned" THEN JobReturned(job, last.summary)
              ELSE [job EXCEPT !.pc = "thrown", !.thrown = last.thrown]
    /\ UNCHANGED <<engine, registry, calls, memoryBridge>>

Execute(c) ==
    /\ c \in DOMAIN calls
    /\ calls[c].pc = "idle"
    /\ \A d \in DOMAIN calls : d < c => calls[d].pc # "idle"
    /\ Suspended
    /\ calls' = [calls EXCEPT ![c] = ExecuteCall(@)]
    /\ config' = IF calls'[c].evBatchStart = 1
                 THEN ConfigAfterMerge(config, calls[c].options) ELSE config
    /\ UNCHANGED <<profiling, metricsCollector, eventListeners, registry, memoryBridge>>
    /\ job' = JobAfter(job, calls')

\* the inner while loop starts the next batch: processBatch(batchIndex)
\* nextBatchIndex kept on the instance: every running call shares the cursor
AdmitSharedCursor(c) ==
    LET cr == calls[c]
        b == cr.nextBatchIndex + 1
    IN
    /\ c \in DOMAIN calls
    /\ cr.pc = "admit"
    /\ CanAdmit(cr)
    /\ calls' = [d \in DOMAIN calls |->
          IF d # c THEN [calls[d] EXCEPT !.nextBatchIndex = @ + 1]
          ELSE
          LET admitted == Emit([cr EXCEPT !.nextBatchIndex = @ + 1,
                                          !.active = @ + 1,
                                          !.tasks[b].evStart = @ + 1],
                               "operation:start")
          IN
          IF Escapes("operation:start")
          THEN BatchCatch(admitted, b, admitted.tasks[b], ListenerError)
          ELSE [admitted EXCEPT
                  !.tasks[b] = StartInvocation(admitted, b, admitted.tasks[b])]]
    /\ Frame

Admit(c) ==
    LET cr == calls[c]
        b == cr.nextBatchIndex + 1
    IN
    /\ c \in DOMAIN calls
    /\ cr.pc = "admit"
    /\ CanAdmit(cr)
    /\ calls' = [calls EXCEPT ![c] =
          LET admitted == Emit([cr EXCEPT !.nextBatchIndex = @ + 1,
                                          !.active = @ + 1,
                                          !.tasks[b].evStart = @ + 1],
                               "operation:start")
          IN
          IF Escapes("operation:start")
          THEN BatchCatch(admitted, b, admitted.tasks[b], ListenerError)
          ELSE [admitted EXCEPT
                  !.tasks[b] = StartInvocation(admitted, b, admitted.tasks[b])]]
    /\ Frame

\* await new Promise(resolve => setTimeout(resolve, 10))
Sleep(c) ==
    LET cr == calls[c] IN
    /\ c \in DOMAIN calls
    /\ cr.pc = "admit"
    /\ ~CanAdmit(cr)
    /\ ShouldWait(cr)
    /\ calls' = [calls EXCEPT ![c].pc = "sleep"]
    /\ Frame

\* the timer fires and the outer loop goes round again
Wake(c) ==
    LET cr == calls[c] IN
    /\ c \in DOMAIN calls
    /\ cr.pc = "sleep"
    /\ Settled
    /\ LoopCondition(cr)
    /\ calls' = [calls EXCEPT ![c].pc = "admit"]
    /\ Frame

\* The outer loop ends: Promise.all, flat(), the summary, the metrics and
\* batch:complete.
FinishCall(cr) ==
    LET summary == SuccessSummary(Flat(cr.results))
        measured == IF StartTimeSet THEN [cr EXCEPT !.metricsCalls = @ + 1] ELSE cr
        told == Emit([measured EXCEPT !.evBatchComplete = @ + 1], "batch:complete")
    IN IF StartTimeSet /\ metricsCollector = "throws"
       THEN Caught(measured, "metrics failed")
       ELSE IF Escapes("batch:complete") THEN Caught(told, ListenerError)
       ELSE Returned(told, summary)

Finish(c) ==
    LET cr == calls[c] IN
    /\ c \in DOMAIN calls
    /\ cr.pc = "sleep"
    /\ Settled
    /\ ~LoopCondition(cr)
    /\ calls' = [calls EXCEPT ![c] = FinishCall(cr)]
    /\ Frame

\* a batch task whose handler settled without suspending resumes
TaskResume(c, b) ==
    LET cr == calls[c] IN
    /\ c \in DOMAIN calls
    /\ b \in DOMAIN cr.tasks
    /\ cr.tasks[b].pc = "settled"
    /\ Settled
    /\ calls' = [calls EXCEPT ![c] = Settle(cr, b, cr.tasks[b])]
    /\ Frame

\* the collaborator call a handler awaits settles
CollaboratorSettles(c, b) ==
    LET cr == calls[c]
        t == cr.tasks[b]
        out == AfterCall(cr.class, cr.opts, cr.batches[b], t.pos, t.acc,
                         t.calls[t.pos])
        t1 == [t EXCEPT !.pos = out.pos, !.acc = out.acc, !.out = out,
                        !.answered[t.pos] = @ + 1]
    IN
    /\ c \in DOMAIN calls
    /\ b \in DOMAIN cr.tasks
    /\ t.pc = "awaiting"
    /\ Settled
    /\ calls' = [calls EXCEPT ![c] =
          IF out.st = "awaiting"
          THEN [cr EXCEPT !.tasks[b] = [t1 EXCEPT !.calls = BeginCall(@, out.pos)]]
          ELSE Settle(cr, b, t1)]
    /\ Frame

\* the backoff sleep of _executeWithRetry ends: the next attempt
BackoffExpires(c, b) ==
    LET cr == calls[c]
        t1 == StartInvocation(cr, b, cr.tasks[b])
    IN
    /\ c \in DOMAIN calls
    /\ b \in DOMAIN cr.tasks
    /\ cr.tasks[b].pc = "backoff"
    /\ Settled
    /\ calls' = [calls EXCEPT ![c] =
          IF t1.pc = "awaiting"
          THEN [cr EXCEPT !.tasks[b] = t1]
          ELSE Settle(cr, b, t1)]
    /\ Frame

\* What the engine is constructed with and the call its caller makes.
\* ------------------------------------------------------------ MemoryBridge
\* memoryBridge holds the instance (config, isInitialized, syncState,
\* syncIntervalId) and what it works on: the interval timers of the
\* runtime that are active, the tasks file and how often others changed it,
\* the entities the memory system
\* holds and has accepted, the requests sent for each task, and the calls
\* of the instance's methods made so far (ops).  syncErrors and the log are
\* left out.
Null == 0              \* this.syncIntervalId = null; a missing task id
NoHash == <<>>         \* Map.get of a key that was never set
NoTask == [id |-> Null, content |-> <<>>]

\* _calculateEntityHash: hash = ((hash << 5) - hash) + char; hash = hash & hash
\* over the characters of JSON.stringify(entity), kept to 32 bits as a pair
\* of 16-bit halves, and hash.toString(16): the sign, written -1, and the
\* digits in base 16
CalculateEntityHash(jsonStr) ==
    LET word == 65536
        hash[i \in 0..Len(jsonStr)] ==
          IF i = 0 THEN <<0, 0>>
          ELSE LET low == hash[i - 1][2] * 31 + jsonStr[i] IN
               <<(hash[i - 1][1] * 31 + low \div word) % word, low % word>>
        h == hash[Len(jsonStr)]
        int32 == IF h[1] >= word \div 2 THEN (h[1] - word) * word + h[2]
                 ELSE h[1] * word + h[2]
        digits[n \in Nat] ==
          IF n < 16 THEN <<n>> ELSE digits[n \div 16] \o <<n % 16>>
    IN IF int32 < 0 THEN <<-1>> \o digits[-int32] ELSE digits[int32]

\* _transformTaskToMemoryEntity and _formatTaskContent: the content under
\* a heading, written as the character #
TransformTaskToMemoryEntity(task) == <<35>> \o task.content

\* _transformMemoryEntityToTask and _parseEntityContent
TransformMemoryEntityToTask(id, entity) == [id |-> id, content |-> Tail(entity)]

\* new MemoryBridge(options), with the tasks file the caller will name
NewMemoryBridge(enabled, tasksFile) ==
    [config |-> [enabled |-> enabled],
     isInitialized |-> FALSE,
     syncState |-> [lastSyncTime |-> FALSE, inProgress |-> FALSE,
                    taskHashes |-> [id \in 1..MaxTasks |-> NoHash],
                    memoryHashes |-> [id \in 1..MaxTasks |-> NoHash]],
     syncIntervalId |-> Null,
     timers |-> {}, created |-> 0,
     tasksFile |-> tasksFile, edits |-> 0,
     memory |-> [id \in 1..MaxTasks |-> <<>>],
     accepted |-> {},
     sent |-> [id \in 1..MaxTasks |-> 0],
     ops |-> <<>>]

\* A call of a method of the instance: plan holds the steps still to run,
\* todo the tasks _mirrorAllTasksToMemory or mirrorTaskToMemory still has
\* to mirror, overlapped whether a synchronization was under way when the
\* call began.
NewOp(method, plan, direction, todo, busy) ==
    [method |-> method, pc |-> "running", plan |-> plan,
     direction |-> direction, todo |-> todo, hash |-> NoHash,
     result |-> "", sends |-> 0, overlapped |-> busy]

\* A _mirrorAllTasksToMemory or syncMemoryToTask call is under way.
Synchronizing(b) ==
    \E o \in DOMAIN b.ops :
        \/ b.ops[o].pc = "fetching"
        \/ (b.ops[o].pc = "sending" /\ b.ops[o].method # "mirrorTaskToMemory")

\* if (this.syncIntervalId) { clearInterval(this.syncIntervalId); ... = null }
ClearInterval(b) ==
    IF b.syncIntervalId = Null THEN b
    ELSE [b EXCEPT !.timers = {t \in @ : t.id # b.syncIntervalId},
                   !.syncIntervalId = Null]

\* this.syncIntervalId = setInterval(async () => { ... }, interval)
SetInterval(b, direction) ==
    [b EXCEPT !.timers = @ \cup {[id |-> b.created + 1, direction |-> direction]},
              !.created = @ + 1,
              !.syncIntervalId = b.created + 1]

\* the steps of the synchronization in the given direction
SyncSteps(direction) ==
    (IF direction \in {"bidirectional", "taskToMemory"}
     THEN <<"mirrorAll">> ELSE <<>>)
    \o (IF direction \in {"bidirectional", "memoryToTask"}
        THEN <<"syncMemoryToTask">> ELSE <<>>)

\* _resolveTask: an object is the task; an id is looked up in the tasks file
ResolveTask(b, task) ==
    IF task.obj THEN [id |-> task.id, content |-> task.content]
    ELSE IF ~b.tasksFile.readable THEN NoTask
    ELSE LET found == {i \in DOMAIN b.tasksFile.tasks :
                          b.tasksFile.tasks[i].id = task.id}
         IN IF found = {} THEN NoTask
            ELSE b.tasksFile.tasks[CHOOSE i \in found : \A j \in found : i <= j]

\* mirrorTaskToMemory after _sendToMemorySystem has answered: the hash is
\* recorded regardless of result.success
RecordHashAlways(syncState, task, taskHash, success) ==
    [syncState EXCEPT !.taskHashes[task.id] = taskHash]

\* mirrorTaskToMemory after _sendToMemorySystem has answered:
\* if (result.success) this.syncState.taskHashes.set(taskObj.id, taskHash)
RecordHash(syncState, task, taskHash, success) ==
    IF success THEN [syncState EXCEPT !.taskHashes[task.id] = taskHash]
    ELSE syncState

\* The call o runs on from the head of its plan up to its next request to
\* the memory system, or to its end.
RECURSIVE Proceed(_, _)
Proceed(b, o) ==
    LET op == b.ops[o]
        rest == [b EXCEPT !.ops[o].plan = Tail(@)]
    IN
    IF op.plan = <<>> THEN [b EXCEPT !.ops[o].pc = "returned"]
    ELSE CASE Head(op.plan) = "clearInterval" -> Proceed(ClearInterval(rest), o)
           [] Head(op.plan) = "mirrorAll" ->
                \* _mirrorAllTasksToMemory up to its loop
                IF ~b.tasksFile.readable
                THEN Proceed([rest EXCEPT !.syncState.inProgress = FALSE,
                                          !.ops[o].result = "Failed to read tasks data"], o)
                ELSE Proceed([b EXCEPT !.syncState.inProgress = TRUE,
                                       !.ops[o].todo = b.tasksFile.tasks,
                                       !.ops[o].plan = <<"mirrorTask">> \o Tail(@)], o)
           [] Head(op.plan) = "mirrorTask" ->
                \* the loop of _mirrorAllTasksToMemory and what follows it
                IF op.todo = <<>>
                THEN Proceed([rest EXCEPT !.syncState.lastSyncTime = TRUE,
                                          !.syncState.inProgress = FALSE,
                                          !.ops[o].result = "success"], o)
                ELSE LET task == Head(op.todo)
                         taskHash == CalculateEntityHash(task.content)
                     IN
                     IF task.id = Null \/ b.syncState.taskHashes[task.id] = taskHash
                     THEN Proceed([b EXCEPT !.ops[o].todo = Tail(@)], o)
                     ELSE [b EXCEPT !.ops[o].pc = "sending",
                                    !.ops[o].hash = taskHash,
                                    !.ops[o].sends = @ + 1,
                                    !.sent[task.id] = @ + 1]
           [] Head(op.plan) = "syncMemoryToTask" ->
                \* syncMemoryToTask up to `await this._fetchMemoryEntities()`
                IF ~b.isInitialized
                THEN Proceed([rest EXCEPT !.ops[o].result = "MemoryBridge not initialized"], o)
                ELSE [rest EXCEPT !.syncState.inProgress = TRUE,
                                  !.ops[o].pc = "fetching"]
           [] OTHER ->
                \* "setInterval": the timer is set and true is returned
                Proceed([SetInterval(rest, op.direction) EXCEPT
                            !.ops[o].result = "true"], o)

\* syncMemoryToTask from the answer of _fetchMemoryEntities on: an answer
\* that is no array and an unreadable tasks file end the call; otherwise
\* every changed entity of a task is merged into the task of its id, which
\* keeps its description, or added as a new task, the file is written and
\* the synchronization is over.
AfterFetch(b, o, entities) ==
    LET order == [i \in 1..MaxTasks |-> i]
        Changed(id) ==
            /\ b.memory[id] # <<>>
            /\ b.syncState.memoryHashes[id] # CalculateEntityHash(b.memory[id])
        Created(id) ==
            /\ Changed(id)
            /\ \A i \in DOMAIN b.tasksFile.tasks : b.tasksFile.tasks[i].id # id
        created == SelectSeq(order, Created)
    IN
    IF entities = "malformed"
    THEN [b EXCEPT !.ops[o].result = "Failed to fetch memory entities"]
    ELSE IF ~b.tasksFile.readable
    THEN [b EXCEPT !.ops[o].result = "Failed to read tasks data"]
    ELSE IF entities = "error"
    THEN [b EXCEPT !.syncState.lastSyncTime = TRUE,
                   !.syncState.inProgress = FALSE,
                   !.ops[o].result = "success"]
    ELSE [b EXCEPT
            !.tasksFile.tasks =
                @ \o [i \in DOMAIN created |->
                        TransformMemoryEntityToTask(created[i], b.memory[created[i]])],
            !.syncState.memoryHashes =
                [id \in 1..MaxTasks |-> IF Changed(id)
                                    THEN CalculateEntityHash(b.memory[id]) ELSE @[id]],
            !.syncState.lastSyncTime = TRUE,
            !.syncState.inProgress = FALSE,
            !.ops[o].result = "success"]

\* initialize(): a disabled instance answers false, an enabled one tests
\* the connection
Initialize ==
    LET b == memoryBridge
        o == Len(b.ops) + 1
        called == [b EXCEPT !.ops = Append(@, NewOp("initialize", <<>>, "",
                                                    <<>>, Synchronizing(b)))]
    IN
    /\ Len(b.ops) < MaxOps
    /\ memoryBridge' = IF ~b.config.enabled
                       THEN [called EXCEPT !.ops[o].pc = "returned",
                                           !.ops[o].result = "false"]
                       ELSE [called EXCEPT !.ops[o].pc = "connecting"]
    /\ UNCHANGED <<engine, registry, calls, job>>

\* initializeAutoMirroring(tasksPath, options)
InitializeAutoMirroring(initialSync, direction) ==
    LET b == memoryBridge
        o == Len(b.ops) + 1
        plan == <<"clearInterval">>
                \o (IF initialSync THEN SyncSteps(direction) ELSE <<>>)
                \o <<"setInterval">>
        called == [b EXCEPT !.ops = Append(@, NewOp("initializeAutoMirroring", plan,
                                                    direction, <<>>,
                                                    Synchronizing(b)))]
    IN
    /\ Len(b.ops) < MaxOps
    /\ memoryBridge' =
          IF b.isInitialized THEN Proceed(called, o)
          ELSE IF ~b.config.enabled
          THEN [called EXCEPT !.ops[o].pc = "returned", !.ops[o].result = "false"]
          ELSE [called EXCEPT !.ops[o].pc = "connecting"]
    /\ UNCHANGED <<engine, registry, calls, job>>

\* _testConnection has its answer: initialize sets isInitialized, and
\* initializeAutoMirroring goes on or returns false
ConnectionSettles(o, connected) ==
    LET b == memoryBridge
        set == [b EXCEPT !.isInitialized = connected]
    IN
    /\ o \in DOMAIN b.ops
    /\ b.ops[o].pc = "connecting"
    /\ memoryBridge' =
          IF connected /\ b.ops[o].method = "initializeAutoMirroring"
          THEN Proceed(set, o)
          ELSE [set EXCEPT !.ops[o].pc = "returned",
                           !.ops[o].result = IF connected THEN "true" ELSE "false"]
    /\ UNCHANGED <<engine, registry, calls, job>>

\* stopAutoMirroring()
StopAutoMirroring ==
    /\ memoryBridge' = ClearInterval(memoryBridge)
    /\ UNCHANGED <<engine, registry, calls, job>>

\* mirrorTaskToMemory(task, tasksPath) up to `await this._sendToMemorySystem`
MirrorTaskToMemory(task) ==
    LET b == memoryBridge
        o == Len(b.ops) + 1
        taskObj == ResolveTask(b, task)
        taskHash == CalculateEntityHash(taskObj.content)
        called == [b EXCEPT !.ops = Append(@, NewOp("mirrorTaskToMemory", <<>>, "",
                                                    <<taskObj>>, Synchronizing(b)))]
        Return(result) == [called EXCEPT !.ops[o].pc = "returned",
                                         !.ops[o].result = result]
    IN
    /\ Len(b.ops) < MaxOps
    /\ memoryBridge' =
          IF taskObj = NoTask THEN Return("Task not found")
          ELSE IF taskObj.id = Null THEN Return("error")
          ELSE IF b.syncState.taskHashes[taskObj.id] = taskHash
          THEN Return("unchanged")
          ELSE [called EXCEPT !.ops[o].pc = "sending",
                              !.ops[o].hash = taskHash,
                              !.ops[o].sends = @ + 1,
                              !.sent[taskObj.id] = @ + 1]
    /\ UNCHANGED <<engine, registry, calls, job>>

\* _sendToMemorySystem has its answer: the memory system accepted the
\* entity or the request failed
SendSettles(o, success) ==
    LET b == memoryBridge
        op == b.ops[o]
        task == Head(op.todo)
        answered ==
            [b EXCEPT
               !.memory[task.id] =
                   IF success THEN TransformTaskToMemoryEntity(task) ELSE @,
               !.accepted = IF success THEN @ \cup {<<task.id, op.hash>>} ELSE @,
               !.syncState = RecordHash(@, task, op.hash, success),
               !.ops[o].todo = Tail(@)]
    IN
    /\ o \in DOMAIN b.ops
    /\ op.pc = "sending"
    /\ memoryBridge' =
          IF op.method = "mirrorTaskToMemory"
          THEN [answered EXCEPT !.ops[o].pc = "returned",
                                !.ops[o].result = IF success THEN "mirrored"
                                                  ELSE "failed"]
          ELSE Proceed([answered EXCEPT !.ops[o].pc = "running"], o)
    /\ UNCHANGED <<engine, registry, calls, job>>

\* syncMemoryToTask(tasksPath) called by the user of the instance
SyncMemoryToTask ==
    LET b == memoryBridge
        o == Len(b.ops) + 1
    IN
    /\ Len(b.ops) < MaxOps
    /\ memoryBridge' =
          Proceed([b EXCEPT !.ops = Append(@, NewOp("syncMemoryToTask",
                                                    <<"syncMemoryToTask">>, "",
                                                    <<>>, Synchronizing(b)))], o)
    /\ UNCHANGED <<engine, registry, calls, job>>

\* _fetchMemoryEntities has its answer: the entities the memory system
\* holds, [] after an error, or something that is no array
FetchSettles(o, entities) ==
    LET b == memoryBridge IN
    /\ o \in DOMAIN b.ops
    /\ b.ops[o].pc = "fetching"
    /\ memoryBridge' = Proceed([AfterFetch(b, o, entities) EXCEPT
                                   !.ops[o].pc = "running"], o)
    /\ UNCHANGED <<engine, registry, calls, job>>

\* the callback of the interval timer t runs
TimerFires(t) ==
    LET b == memoryBridge
        o == Len(b.ops) + 1
        direction == (CHOOSE x \in b.timers : x.id = t).direction
        called == [b EXCEPT !.ops = Append(@, NewOp("timer", SyncSteps(direction),
                                                    direction, <<>>,
                                                    Synchronizing(b)))]
    IN
    /\ \E x \in b.timers : x.id = t
    /\ Len(b.ops) < MaxOps
    /\ memoryBridge' =
          IF b.syncState.inProgress
          THEN [called EXCEPT !.ops[o].pc = "returned", !.ops[o].result = "skipped"]
          ELSE Proceed(called, o)
    /\ UNCHANGED <<engine, registry, calls, job>>

\* somebody else rewrites the tasks file, or makes it unreadable
TasksFileChanges(tasksFile) ==
    /\ tasksFile # memoryBridge.tasksFile
    /\ memoryBridge.edits < MaxEdits
    /\ memoryBridge' = [memoryBridge EXCEPT !.tasksFile = tasksFile,
                                            !.edits = @ + 1]
    /\ UNCHANGED <<engine, registry, calls, job>>

\* ------------------------------------------------- BatchOperationFactory
\* What the caller has asked of the factory: the number of register calls,
\* the successful ones in order, and the last call with its outcome.
NoFactoryCalls ==
    [registers |-> 0, log |-> <<>>,
     last |-> [op |-> "none", type |-> "", class |-> NoHandler, threw |-> FALSE,
               error |-> "", value |-> NoHandler, has |-> FALSE, types |-> <<>>,
               before |-> StandardHandlers, keysBefore |-> StandardKeys]]

\* BatchOperationFactory.register(type, handlerClass) is called
RegisterHandler(type, handlerClass) ==
    LET out == RegisterCall(handlers, handlerKeys, type, handlerClass) IN
    /\ factory.registers < MaxRegistrations
    /\ handlers' = out.handlers
    /\ handlerKeys' = out.keys
    /\ factory' =
          [registers |-> factory.registers + 1,
           log |-> IF out.threw THEN factory.log
                   ELSE Append(factory.log, <<type, handlerClass>>),
           last |-> [op |-> "register", type |-> type, class |-> handlerClass,
                     threw |-> out.threw, error |-> out.error,
                     value |-> NoHandler, has |-> FALSE, types |-> <<>>,
                     before |-> handlers, keysBefore |-> handlerKeys]]
    /\ UNCHANGED <<engine, calls, job, memoryBridge>>

\* BatchOperationFactory.getHandler(type) is called
GetHandler(type) ==
    LET out == GetHandlerCall(handlers, handlerKeys, type) IN
    /\ factory' =
          [factory EXCEPT
             !.last = [op |-> "getHandler", type |-> type, class |-> NoHandler,
                       threw |-> out.threw, error |-> out.error,
                       value |-> out.value, has |-> FALSE, types |-> <<>>,
                       before |-> handlers, keysBefore |-> handlerKeys]]
    /\ UNCHANGED <<engine, handlers, handlerKeys, calls, job, memoryBridge>>

\* BatchOperationFactory.hasHandler(type) and getRegisteredTypes() are
\* called
Inspect(type) ==
    /\ factory' =
          [factory EXCEPT
             !.last = [op |-> "hasHandler", type |-> type, class |-> NoHandler,
                       threw |-> FALSE, error |-> "", value |-> NoHandler,
                       has |-> \E i \in DOMAIN handlerKeys : handlerKeys[i] = type,
                       types |-> GetRegisteredTypes(handlerKeys),
                       before |-> handlers, keysBefore |-> handlerKeys]]
    /\ UNCHANGED <<engine, handlers, handlerKeys, calls, job, memoryBridge>>

\* The arguments callers give: kinds registered at module initialisation
\* or not, the empty string and a value that is no string; handler classes
\* and no handler class.
RegisterTypes == {"create", "import", "abstract", EmptyType, NotAString}
RegisterClasses == {"UnguardedOperation", "BatchOperation", NoHandler}
QueryTypes == {"create", "import", "nonexistent", EmptyType}

InitRegistry ==
    /\ config = DefaultConfig
    /\ profiling = FALSE
    /\ metricsCollector = "ok"
    /\ handlers = StandardHandlers
    /\ handlerKeys = StandardKeys
    /\ factory = NoFactoryCalls
    /\ eventListeners = NoListeners
    /\ calls = <<>>
    /\ memoryBridge = NewMemoryBridge(TRUE, [readable |-> FALSE, tasks |-> <<>>])
    /\ job = NoJob

NextRegistry ==
    \/ \E type \in RegisterTypes, handlerClass \in RegisterClasses :
          RegisterHandler(type, handlerClass)
    \/ \E type \in QueryTypes : GetHandler(type)
    \/ \E type \in QueryTypes : Inspect(type)

SpecRegistry == InitRegistry /\ [][NextRegistry]_vars

\* --------------------------------------------------------------- scenarios

SeqsUpTo(S, n) == UNION {[1..k -> S] : k \in 1..n}

\* Scheduling: distinct items, each succeeding or failing at its
\* collaborator, under every configuration of the bounds.
SchedulingItems ==
    UNION {{[i \in 1..n |-> MkItem(TRUE, i, fates[i], "true")] :
               fates \in [1..n -> {"ok", "fail"}]} : n \in 1..MaxItems}

SchedulingScenarios ==
    {[config |-> [enabled |-> TRUE, maxConcurrent |-> mc, batchSize |-> bs,
                  retryAttempts |-> ra, retryDelay |-> DefaultRetryDelay],
      profiling |-> FALSE, metricsCollector |-> "ok",
      user |-> IF k[1] \in UserKinds THEN k[1] ELSE "nonexistent",
      kind |-> k[1], items |-> items,
      options |-> [NoOptions EXCEPT !.hasCollaborator = k[2]]] :
        mc \in 0..MaxConc, bs \in 0..MaxBatch, ra \in 0..MaxRetry,
        k \in {<<"custom", TRUE>>, <<"custom", FALSE>>, <<"import", TRUE>>},
        items \in SchedulingItems}

\* Retries: items of which at least one fails at its first collaborator
\* call only, under a handler that lets the failure escape and under one
\* that turns it into a failed result.
RetryScenarios ==
    LET RetryItems ==
          UNION {{[i \in 1..n |-> MkItem(TRUE, i, fates[i], "true")] :
                     fates \in {f \in [1..n -> {"ok", "fail", "flaky"}] :
                                   \E i \in 1..n : f[i] = "flaky"}} :
                 n \in 1..MaxItems}
    IN
    {[config |-> [enabled |-> TRUE, maxConcurrent |-> mc, batchSize |-> bs,
                  retryAttempts |-> ra, retryDelay |-> DefaultRetryDelay],
      profiling |-> FALSE, metricsCollector |-> "ok",
      user |-> IF k \in UserKinds THEN k ELSE "nonexistent",
      kind |-> k, items |-> items, options |-> NoOptions] :
        mc \in 1..MaxConc, bs \in 1..MaxBatch, ra \in 0..MaxRetry,
        k \in {"custom", "import"}, items \in RetryItems}

\* Handlers: the shapes of item the four handlers tell apart.
HandlerItems ==
    {MkItem(TRUE, 1, "ok", "true"), MkItem(TRUE, NoId, "ok", "true"),
     MkItem(TRUE, 0, "ok", "true"), MkItem(FALSE, 1, "ok", "true"),
     MkItem(FALSE, 0, "ok", "true"), MkItem(TRUE, 2, "fail", "true"),
     MkItem(TRUE, 1, "ok", "msg"), MkItem(TRUE, 2, "ok", "other"),
     MkItem(TRUE, 2, "ok", "throws")}

HandlerOptions ==
    {[NoOptions EXCEPT !.validateItem = v, !.batchSize = bs] :
        v \in BOOLEAN, bs \in {Unset, 1}}
    \cup {[NoOptions EXCEPT !.hasCollaborator = FALSE]}

HandlerScenarios ==
    {[config |-> DefaultConfig, profiling |-> FALSE, metricsCollector |-> "ok",
      user |-> "nonexistent", kind |-> k, items |-> items, options |-> o] :
        k \in StandardKinds, o \in HandlerOptions,
        items \in SeqsUpTo(HandlerItems, MaxHandlerItems)}

\* Calls that end before any batch runs, and calls with profiling on.
EdgeItems == {<<>>, <<MkItem(TRUE, 1, "ok", "true")>>,
              <<MkItem(TRUE, 1, "ok", "true"), MkItem(TRUE, 2, "fail", "true")>>}

EdgeScenarios ==
    {[config |-> [DefaultConfig EXCEPT !.enabled = e],
      profiling |-> p[1], metricsCollector |-> p[2],
      user |-> IF k \in UserKinds THEN k ELSE "nonexistent",
      kind |-> k, items |-> items, options |-> NoOptions] :
        e \in BOOLEAN, k \in {"update", "custom", "nonexistent"} \cup UserKinds,
        p \in {<<FALSE, "ok">>, <<TRUE, "ok">>, <<TRUE, "throws">>},
        items \in EdgeItems}

Scenarios ==
    SchedulingScenarios \cup RetryScenarios \cup HandlerScenarios
    \cup EdgeScenarios

\* The listeners registered before the call: none, or on every event one
\* that throws followed by one that returns.
RECURSIVE OnEach(_, _, _)
OnEach(listeners, events, listener) ==
    IF events = {} THEN listeners
    ELSE LET e == CHOOSE x \in events : TRUE IN
         OnEach(On(listeners, e, listener), events \ {e}, listener)

ListenerChoices ==
    {NoListeners, OnEach(OnEach(NoListeners, Events, "throws"), Events, "ok")}

\* ----------------------------------------------------------- specification
Init ==
    \E s \in Scenarios, l \in ListenerChoices :
        /\ config = s.config
        /\ eventListeners = l
        /\ profiling = s.profiling
        /\ metricsCollector = s.metricsCollector
        /\ handlers = IF s.user \in UserKinds
                      THEN Register(StandardHandlers, s.user, UserClass(s.user))
                      ELSE StandardHandlers
        /\ handlerKeys = IF s.user \in UserKinds
                         THEN RegisterKey(StandardKeys, s.user)
                         ELSE StandardKeys
        /\ factory = NoFactoryCalls
        /\ calls = [c \in Calls |-> NewCall(s.kind, s.items, s.options)]
        /\ memoryBridge = NewMemoryBridge(TRUE, [readable |-> FALSE, tasks |-> <<>>])
        /\ job = NoJob

Next ==
    \E c \in Calls :
        \/ Execute(c)
        \/ Admit(c)
        \/ Sleep(c)
        \/ Wake(c)
        \/ Finish(c)
        \/ \E b \in BatchIds :
              \/ TaskResume(c, b)
              \/ CollaboratorSettles(c, b)
              \/ BackoffExpires(c, b)

Spec == Init /\ [][Next]_vars

\* The event loop keeps running: whatever is runnable runs.  A timer that
\* was set expires and a collaborator call that was made comes back, and a
\* pending continuation runs when the running code yields, however often
\* the admission loop wakes and sleeps in between.
Fairness ==
    /\ WF_vars(Next)
    /\ SF_vars(\E c \in Calls, b \in BatchIds :
                  \/ TaskResume(c, b)
                  \/ CollaboratorSettles(c, b)
                  \/ BackoffExpires(c, b))

SpecFair == Init /\ [][Next]_vars /\ Fairness

\* ------------------------------------------- specification of batchProcess
\* The descriptors a caller mixes: records to create and raw identifiers
\* to delete, a kind nobody registered, a descriptor without a type, one
\* without data and one whose data is the identifier 0.
ProcessDescriptors ==
    {MkOp("create", MkItem(TRUE, 1, "ok", "true")),
     MkOp("create", MkItem(TRUE, 2, "fail", "true")),
     MkOp("delete", MkItem(FALSE, 1, "ok", "true")),
     MkOp("delete", MkItem(FALSE, 2, "fail", "true")),
     MkOp("delete", MkItem(FALSE, 0, "ok", "true")),
     MkOp("nonexistent", MkItem(TRUE, 1, "ok", "true")),
     MkOp("", MkItem(TRUE, 1, "ok", "true")),
     MkOp("create", MkItem(FALSE, NoId, "ok", "true"))}

ProcessEngines ==
    {[enabled |-> TRUE, profiling |-> FALSE, metricsCollector |-> "ok",
      hasCollaborator |-> TRUE, batchSize |-> DefaultBatchSize,
      maxConcurrent |-> DefaultMaxConcurrent],
     [enabled |-> FALSE, profiling |-> FALSE, metricsCollector |-> "ok",
      hasCollaborator |-> TRUE, batchSize |-> DefaultBatchSize,
      maxConcurrent |-> DefaultMaxConcurrent],
     [enabled |-> TRUE, profiling |-> TRUE, metricsCollector |-> "ok",
      hasCollaborator |-> TRUE, batchSize |-> DefaultBatchSize,
      maxConcurrent |-> DefaultMaxConcurrent],
     [enabled |-> TRUE, profiling |-> TRUE, metricsCollector |-> "ok",
      hasCollaborator |-> TRUE, batchSize |-> 1,
      maxConcurrent |-> DefaultMaxConcurrent],
     [enabled |-> TRUE, profiling |-> FALSE, metricsCollector |-> "ok",
      hasCollaborator |-> TRUE, batchSize |-> 1, maxConcurrent |-> 1],
     [enabled |-> TRUE, profiling |-> TRUE, metricsCollector |-> "throws",
      hasCollaborator |-> TRUE, batchSize |-> DefaultBatchSize,
      maxConcurrent |-> DefaultMaxConcurrent],
     [enabled |-> TRUE, profiling |-> FALSE, metricsCollector |-> "ok",
      hasCollaborator |-> FALSE, batchSize |-> DefaultBatchSize,
      maxConcurrent |-> DefaultMaxConcurrent]}

InitBatchProcess ==
    \E operations \in {<<>>} \cup SeqsUpTo(ProcessDescriptors, MaxDescriptors),
       e \in ProcessEngines :
        /\ config = [DefaultConfig EXCEPT !.enabled = e.enabled,
                                          !.batchSize = e.batchSize,
                                          !.maxConcurrent = e.maxConcurrent]
        /\ profiling = e.profiling
        /\ metricsCollector = e.metricsCollector
        /\ handlers = StandardHandlers
        /\ handlerKeys = StandardKeys
        /\ factory = NoFactoryCalls
        /\ eventListeners = NoListeners
        /\ calls = <<>>
        /\ memoryBridge = NewMemoryBridge(TRUE, [readable |-> FALSE, tasks |-> <<>>])
        /\ job = NewJob(operations,
                        [NoOptions EXCEPT !.hasCollaborator = e.hasCollaborator])

NextBatchProcess ==
    \/ BatchProcess
    \/ BatchProcessSettles
    \/ \E c \in KindCalls :
          \/ Execute(c)
          \/ Admit(c)
          \/ Sleep(c)
          \/ Wake(c)
          \/ Finish(c)
          \/ \E b \in BatchIds :
                \/ TaskResume(c, b)
                \/ CollaboratorSettles(c, b)
                \/ BackoffExpires(c, b)

SpecBatchProcess == InitBatchProcess /\ [][NextBatchProcess]_vars

\* ----------------------------- specification of batchUpdateWithOptimalSize
\* Lists of records to update, empty, of one item, one item short of the
\* threshold and from the threshold on: every update succeeds, or the
\* first fails at the repository, or the third has no identifier.
OptimalItems ==
    UNION {{[i \in 1..n |-> MkItem(TRUE, i, "ok", "true")],
            [i \in 1..n |-> MkItem(TRUE, i, IF i = 1 THEN "fail" ELSE "ok", "true")],
            [i \in 1..n |-> MkItem(TRUE, IF i = 3 THEN NoId ELSE i, "ok", "true")]} :
              n \in {0, 1} \cup (OptimalThreshold - 1)..MaxOptimalItems}

\* The milliseconds the sample run is measured to take.
SampleDurations == {-1, 0, 1, 24, 25, 26, 40, 200, 500, 556, 3000, 6000, 100000}

OptimalEngines ==
    {[enabled |-> TRUE, profiling |-> FALSE, metricsCollector |-> "ok",
      hasCollaborator |-> TRUE, maxConcurrent |-> mc] : mc \in {1, 2, DefaultMaxConcurrent}}
    \cup
    {[enabled |-> FALSE, profiling |-> FALSE, metricsCollector |-> "ok",
      hasCollaborator |-> TRUE, maxConcurrent |-> DefaultMaxConcurrent],
     [enabled |-> TRUE, profiling |-> TRUE, metricsCollector |-> "ok",
      hasCollaborator |-> TRUE, maxConcurrent |-> DefaultMaxConcurrent],
     [enabled |-> TRUE, profiling |-> TRUE, metricsCollector |-> "throws",
      hasCollaborator |-> TRUE, maxConcurrent |-> DefaultMaxConcurrent],
     [enabled |-> TRUE, profiling |-> FALSE, metricsCollector |-> "ok",
      hasCollaborator |-> FALSE, maxConcurrent |-> 2]}

\* the sample run and the run over all the items
SizingCalls == {1, 2}

InitOptimal ==
    \E items \in OptimalItems, e \in OptimalEngines :
        /\ config = [DefaultConfig EXCEPT !.enabled = e.enabled,
                                          !.maxConcurrent = e.maxConcurrent]
        /\ profiling = e.profiling
        /\ metricsCollector = e.metricsCollector
        /\ handlers = StandardHandlers
        /\ handlerKeys = StandardKeys
        /\ factory = NoFactoryCalls
        /\ eventListeners = NoListeners
        /\ calls = <<>>
        /\ memoryBridge = NewMemoryBridge(TRUE, [readable |-> FALSE, tasks |-> <<>>])
        /\ job = NewOptimalJob(items,
                               [NoOptions EXCEPT !.hasCollaborator = e.hasCollaborator])

NextOptimal ==
    \/ BatchUpdateWithOptimalSize
    \/ \E testDuration \in SampleDurations : SampleSettles(testDuration)
    \/ OptimalSizeSettles
    \/ \E c \in SizingCalls :
          \/ Execute(c)
          \/ Admit(c)
          \/ Sleep(c)
          \/ Wake(c)
          \/ Finish(c)
          \/ \E b \in BatchIds :
                \/ TaskResume(c, b)
                \/ CollaboratorSettles(c, b)
                \/ BackoffExpires(c, b)

SpecOptimal == InitOptimal /\ [][NextOptimal]_vars

\* ----------------------------------- specification of the effective Config
\* new BatchOperations(options) followed by the call the caller makes on
\* the instance: execute('create', items, options) or
\* batchProcess(operations, options).
Construct ==
    /\ job.op = "constructor"
    /\ job.pc = "idle"
    /\ config' = ConstructConfig(job.ctor)
    /\ IF job.call = "batchProcess"
       THEN /\ job' = [job EXCEPT !.op = "batchProcess"]
            /\ calls' = calls
       ELSE /\ job' = [job EXCEPT !.op = "execute", !.pc = "none"]
            /\ calls' = <<NewCall("create", job.items, job.options)>>
    /\ UNCHANGED <<profiling, metricsCollector, eventListeners, registry, memoryBridge>>

\* The sizes an options object gives: none, all four, or two of them.
Given(mc, bs, ra, rd) ==
    {NoOptions,
     [NoOptions EXCEPT !.maxConcurrent = mc, !.batchSize = bs,
                       !.retryAttempts = ra, !.retryDelay = rd],
     [NoOptions EXCEPT !.maxConcurrent = mc, !.retryDelay = rd],
     [NoOptions EXCEPT !.batchSize = bs, !.retryAttempts = ra]}

KindOptions ==
    {[k \in Kinds |-> IF k = "create" THEN forCreate
                      ELSE IF k = "update" THEN forUpdate ELSE NoOptions] :
        forCreate \in Given(1, 1, 2, 100),
        forUpdate \in {NoOptions,
                       [NoOptions EXCEPT !.maxConcurrent = 1, !.batchSize = 2,
                                         !.retryAttempts = 1, !.retryDelay = 250]}}

\* Three records to create, or a create, an update and a create
\* descriptor for them.
ConfigItems ==
    <<MkItem(TRUE, 1, "ok", "true"), MkItem(TRUE, 2, "ok", "true"),
      MkItem(TRUE, 3, "ok", "true")>>

InitConfig ==
    \E ctor \in Given(2, 2, 2, 2000), given \in Given(3, 3, 1, 500),
       hasCollaborator \in BOOLEAN,
       perKind \in KindOptions, call \in {"execute", "batchProcess"} :
        LET options == [given EXCEPT !.hasCollaborator = hasCollaborator]
            ConfigOperations ==
                <<MkOp("create", ConfigItems[1]), MkOp("update", ConfigItems[2]),
                  MkOp("create", ConfigItems[3])>>
        IN
        /\ config = DefaultConfig
        /\ profiling = FALSE
        /\ metricsCollector = "ok"
        /\ handlers = StandardHandlers
        /\ handlerKeys = StandardKeys
        /\ factory = NoFactoryCalls
        /\ eventListeners = NoListeners
        /\ calls = <<>>
        /\ memoryBridge = NewMemoryBridge(TRUE, [readable |-> FALSE, tasks |-> <<>>])
        /\ job = [NoJob EXCEPT
                    !.pc = "idle", !.op = "constructor", !.ctor = ctor,
                    !.call = call, !.options = options,
                    !.items = IF call = "execute" THEN ConfigItems ELSE <<>>,
                    !.operations = IF call = "execute" THEN <<>> ELSE ConfigOperations,
                    !.perKind = IF call = "execute" THEN NoJob.perKind ELSE perKind]

NextConfig ==
    \/ Construct
    \/ BatchProcess
    \/ BatchProcessSettles
    \/ \E c \in KindCalls :
          \/ Execute(c)
          \/ Admit(c)
          \/ Sleep(c)
          \/ Wake(c)
          \/ Finish(c)
          \/ \E b \in BatchIds :
                \/ TaskResume(c, b)
                \/ CollaboratorSettles(c, b)
                \/ BackoffExpires(c, b)

SpecConfig == InitConfig /\ [][NextConfig]_vars

\* ------------------------ specification of two execute calls on one engine
\* The caller makes two execute calls on one instance without awaiting the
\* first: the second call starts at any point at which the first one is
\* suspended.  The two calls have different items, of which some fail at
\* their first collaborator call.
InitConcurrent ==
    LET ItemsFrom(first, n, fates) ==
          [i \in 1..n |-> MkItem(TRUE, first + i, fates[i], "true")]
        ListsFrom(first) ==
          UNION {{ItemsFrom(first, n, fates) :
                     fates \in [1..n -> {"ok", "flaky"}]} : n \in 1..MaxBatch}
    IN
    \E mc \in 1..MaxConc, bs \in 1..MaxBatch, ra \in {0, MaxRetry},
       k \in {"custom", "import"},
       first \in ListsFrom(0), second \in ListsFrom(MaxBatch) :
        /\ config = [enabled |-> TRUE, maxConcurrent |-> mc, batchSize |-> bs,
                     retryAttempts |-> ra, retryDelay |-> DefaultRetryDelay]
        /\ eventListeners = NoListeners
        /\ profiling = FALSE
        /\ metricsCollector = "ok"
        /\ handlers = Register(StandardHandlers, "import", UserClass("import"))
        /\ handlerKeys = RegisterKey(StandardKeys, "import")
        /\ factory = NoFactoryCalls
        /\ calls = <<NewCall(k, first, NoOptions), NewCall(k, second, NoOptions)>>
        /\ memoryBridge = NewMemoryBridge(TRUE, [readable |-> FALSE, tasks |-> <<>>])
        /\ job = NoJob

NextConcurrent ==
    \E c \in SizingCalls :
        \/ Execute(c)
        \/ Admit(c)
        \/ Sleep(c)
        \/ Wake(c)
        \/ Finish(c)
        \/ \E b \in BatchIds :
              \/ TaskResume(c, b)
              \/ CollaboratorSettles(c, b)
              \/ BackoffExpires(c, b)

SpecConcurrent == InitConcurrent /\ [][NextConcurrent]_vars

\* ------------------------------------------- specification of MemoryBridge
\* The text of a task: Aa and BB are different texts with the same hash.
Contents == {<<65, 97>>, <<66, 66>>, <<65, 98>>}

\* The tasks files: task 1 with any of the texts, alone or followed by
\* the last task, readable or not.
TasksFiles ==
    {[readable |-> r, tasks |-> ts] :
        r \in BOOLEAN,
        ts \in {<<[id |-> 1, content |-> c]>> : c \in Contents}
               \cup {<<[id |-> 1, content |-> c],
                       [id |-> MaxTasks, content |-> <<65, 98>>]>> : c \in Contents}}

\* What callers hand to mirrorTaskToMemory: a task object, one without
\* id, the id of a task of the file and an id no task has.
MirrorArgs ==
    {[obj |-> TRUE, id |-> 1, content |-> c] : c \in Contents}
    \cup {[obj |-> TRUE, id |-> Null, content |-> <<65, 97>>]}
    \cup {[obj |-> FALSE, id |-> i, content |-> <<>>] : i \in {1, MaxTasks + 1}}

InitBridge ==
    /\ config = DefaultConfig
    /\ profiling = FALSE
    /\ metricsCollector = "ok"
    /\ handlers = StandardHandlers
    /\ handlerKeys = StandardKeys
    /\ factory = NoFactoryCalls
    /\ eventListeners = NoListeners
    /\ calls = <<>>
    /\ job = NoJob
    /\ \E enabled \in BOOLEAN, tasksFile \in TasksFiles :
          memoryBridge = NewMemoryBridge(enabled, tasksFile)

NextBridge ==
    \/ Initialize
    \/ \E initialSync \in BOOLEAN,
          direction \in {"bidirectional", "taskToMemory", "memoryToTask"} :
          InitializeAutoMirroring(initialSync, direction)
    \/ \E o \in 1..MaxOps, connected \in BOOLEAN : ConnectionSettles(o, connected)
    \/ StopAutoMirroring
    \/ \E task \in MirrorArgs : MirrorTaskToMemory(task)
    \/ \E o \in 1..MaxOps, success \in BOOLEAN : SendSettles(o, success)
    \/ SyncMemoryToTask
    \/ \E o \in 1..MaxOps, entities \in {"entities", "error", "malformed"} :
          FetchSettles(o, entities)
    \/ \E t \in 1..MaxOps : TimerFires(t)
    \/ \E tasksFile \in TasksFiles : TasksFileChanges(tasksFile)

SpecBridge == InitBridge /\ [][NextBridge]_vars

\* ------------------------------------------------------------------ claims

StandardClasses ==
    {"CreateOperation", "UpdateOperation", "DeleteOperation", "CustomOperation"}

\* The call reached no collaborator: no handler was constructed or invoked,
\* no repository or processor call was made, no metrics were recorded and
\* no lifecycle event was emitted.
Untouched(cr) ==
    /\ cr.constructed = 0
    /\ cr.metricsCalls = 0
    /\ cr.evBatchStart = 0 /\ cr.evBatchComplete = 0 /\ cr.evBatchError = 0
    /\ cr.tasks = <<>>

\* The batch tasks of a call that are admitted and not yet ended.
InFlight(cr) ==
    {b \in DOMAIN cr.tasks : cr.tasks[b].pc \in {"settled", "awaiting", "backoff"}}

\* A handler whose execute fails at batch level on every invocation.
AlwaysFails(cr) ==
    cr.class = "BatchOperation"
    \/ (cr.class \in StandardClasses \cup {"UnguardedOperation"}
        /\ ~cr.opts.hasCollaborator)

\* The result a guarded handler owes an item, whatever its siblings do.
OwnResult(class, opts, item) ==
    LET e == PreCheck(class, opts, item) IN
    IF e # "" THEN [success |-> FALSE, error |-> e, item |-> item]
    ELSE IF item.fate # "ok"
    THEN [success |-> FALSE, error |-> CollaboratorError, item |-> item]
    ELSE [success |-> TRUE, error |-> "", item |-> item]

\* C1 (as stated): every execute call on a non-empty item list returns a
\* summary holding exactly one ItemResult per input item.
C1_EveryCallHasAllResults ==
    \A c \in Calls :
        (calls[c].pc = "returned" /\ Len(calls[c].items) > 0)
            => Len(calls[c].summary.results) = Len(calls[c].items)

\* C1 (amended): every execute call on a non-empty item list that returns
\* the success summary holds exactly one ItemResult per input item.
C1_SuccessSummaryHasAllResults ==
    \A c \in Calls :
        (calls[c].pc = "returned" /\ Len(calls[c].items) > 0
         /\ calls[c].summary.success)
            => /\ calls[c].summary.hasResults
               /\ Len(calls[c].summary.results) = Len(calls[c].items)
               /\ calls[c].summary.operations = Len(calls[c].items)

\* C1 witness: a returned success summary over three items in which one
\* batch failed after its retries and another ran its handler.
C1_Witness ==
    \E c \in Calls :
        /\ calls[c].pc = "returned" /\ calls[c].summary.success
        /\ Len(calls[c].items) = 3
        /\ Len(calls[c].batches) = 2
        /\ \E b \in DOMAIN calls[c].tasks : calls[c].tasks[b].out.st = "threw"
        /\ \E b \in DOMAIN calls[c].tasks : calls[c].tasks[b].out.st = "returned"

\* C2: in a returned summary results[i].item is items[i] for every i,
\* whatever the order in which the batches completed.
C2_ResultsInInputOrder ==
    \A c \in Calls :
        (calls[c].pc = "returned" /\ calls[c].summary.hasResults)
            => \A i \in DOMAIN calls[c].summary.results :
                  /\ i \in DOMAIN calls[c].items
                  /\ calls[c].summary.results[i].item = calls[c].items[i]

\* C2 witness: a returned summary of a call in which a later batch
\* completed, with a success, before an earlier batch that was delayed by a
\* retry.
C2_Witness ==
    \E c \in Calls :
        /\ calls[c].pc = "returned" /\ calls[c].summary.hasResults
        /\ \E b1, b2 \in DOMAIN calls[c].tasks :
              /\ b1 < b2
              /\ calls[c].tasks[b2].order < calls[c].tasks[b1].order
              /\ calls[c].tasks[b1].attempt > 1
              /\ calls[c].results[b2].val[1].success

\* C3: every summary execute returns satisfies operations = succeeded + failed.
C3_CountsConsistent ==
    \A c \in Calls :
        calls[c].pc = "returned"
            => calls[c].summary.operations
                 = calls[c].summary.succeeded + calls[c].summary.failed

\* C4: the batch tasks in flight (admitted and not ended, those sleeping in
\* backoff included) never exceed the effective maxConcurrent, and the
\* active counter the admission test reads never exceeds it either.
C4_BoundedAdmission ==
    \A c \in Calls :
        calls[c].pc \in {"admit", "sleep", "returned"}
            => /\ Cardinality(InFlight(calls[c])) <= calls[c].opts.maxConcurrent
               /\ calls[c].active <= calls[c].opts.maxConcurrent
               /\ Cardinality(InFlight(calls[c])) <= calls[c].active

\* C4 witness: maxConcurrent tasks are in flight, one of them sleeping in
\* backoff, while a batch still waits to be admitted.
C4_Witness ==
    \E c \in Calls :
        /\ calls[c].pc = "sleep"
        /\ calls[c].opts.maxConcurrent = 2
        /\ Cardinality(InFlight(calls[c])) = 2
        /\ calls[c].nextBatchIndex < Len(calls[c].batches)
        /\ \E b \in DOMAIN calls[c].tasks : calls[c].tasks[b].pc = "backoff"

\* C5: a handler that always fails at batch level is invoked exactly
\* retryAttempts times for each batch: never more at any time, and exactly
\* that often once the batch's task has ended.
C5_RetryBound ==
    \A c \in Calls :
        AlwaysFails(calls[c])
            => \A b \in DOMAIN calls[c].tasks :
                  /\ calls[c].tasks[b].invocations <= calls[c].opts.retryAttempts
                  /\ calls[c].tasks[b].pc \in {"done", "crashed"}
                        => calls[c].tasks[b].invocations = calls[c].opts.retryAttempts

\* C5 witness: a returned call of an always failing handler with two
\* batches, each invoked retryAttempts = 2 times.
C5_Witness ==
    \E c \in Calls :
        /\ calls[c].pc = "returned"
        /\ AlwaysFails(calls[c])
        /\ calls[c].opts.retryAttempts = 2
        /\ Len(calls[c].batches) >= 2
        /\ \A b \in DOMAIN calls[c].tasks : calls[c].tasks[b].invocations = 2

\* C6: no exception escapes execute: every failure is reported in the
\* returned summary.
C6_NothingEscapes ==
    \A c \in Calls : calls[c].pc # "thrown"

\* C7 (as stated): execute with a kind that was never registered fails
\* with the unknown-operation-type error and touches no collaborator.
C7_UnknownKindFails ==
    \A c \in Calls :
        (calls[c].pc # "idle" /\ handlers[calls[c].kind] = NoHandler)
            => /\ calls[c].pc = "thrown"
               /\ calls[c].thrown = "Unknown operation type"
               /\ Untouched(calls[c])

\* C7 (amended): on an enabled engine, execute with a kind that was never
\* registered fails with the unknown-operation-type error and touches no
\* collaborator, for an empty and for a non-empty item list; on a disabled
\* engine it touches no collaborator either.
C7_UnknownKindFailsWhenEnabled ==
    \A c \in Calls :
        (calls[c].pc # "idle" /\ handlers[calls[c].kind] = NoHandler)
            => /\ Untouched(calls[c])
               /\ config.enabled
                    => /\ calls[c].pc = "thrown"
                       /\ calls[c].thrown = "Unknown operation type"

\* C7 witness: an enabled engine has failed a call of an unregistered kind
\* on a non-empty item list.
C7_Witness ==
    \E c \in Calls :
        /\ config.enabled
        /\ handlers[calls[c].kind] = NoHandler
        /\ Len(calls[c].items) > 0
        /\ calls[c].pc = "thrown"

\* C8 (as stated): on a disabled engine, or for an empty item list, execute
\* returns the trivial success summary, reports no error, invokes no
\* handler and emits no event.
C8_TrivialSuccess ==
    \A c \in Calls :
        (calls[c].pc # "idle" /\ (~config.enabled \/ Len(calls[c].items) = 0))
            => /\ calls[c].pc = "returned"
               /\ calls[c].summary.success
               /\ calls[c].summary.error = ""
               /\ calls[c].summary.operations = 0
               /\ calls[c].summary.succeeded = 0
               /\ calls[c].summary.failed = 0
               /\ Untouched(calls[c])

\* C8 (amended): on a disabled engine execute returns a summary with
\* success = false, the error "Batch operations are disabled" and zero
\* counts; on an enabled engine, for a registered kind and an empty item
\* list, it returns the trivial success summary; in both cases no handler
\* is invoked and no event is emitted.
C8_DisabledOrEmpty ==
    \A c \in Calls :
        (calls[c].pc # "idle"
         /\ (~config.enabled
             \/ (handlers[calls[c].kind] # NoHandler /\ Len(calls[c].items) = 0)))
            => /\ calls[c].pc = "returned"
               /\ calls[c].summary.success = config.enabled
               /\ calls[c].summary.error
                    = (IF config.enabled THEN "" ELSE "Batch operations are disabled")
               /\ calls[c].summary.operations = 0
               /\ calls[c].summary.succeeded = 0
               /\ calls[c].summary.failed = 0
               /\ ~calls[c].summary.hasResults
               /\ Untouched(calls[c])

\* C8 witness: an enabled engine has returned from a call of a registered
\* kind on an empty item list.
C8_Witness ==
    \E c \in Calls :
        /\ config.enabled
        /\ handlers[calls[c].kind] # NoHandler
        /\ Len(calls[c].items) = 0
        /\ calls[c].pc = "returned"

\* C9: when a batch still fails after its last attempt, every item of the
\* batch gets a failed result carrying the batch-level error and echoing
\* the item; the batches whose handler returned keep the results the
\* handler gave them, and every batch has run when the call returns.
C9_FailedBatchIsolated ==
    \A c \in Calls :
        LET cr == calls[c] IN
        /\ \A b \in DOMAIN cr.tasks :
              LET t == cr.tasks[b] IN
              /\ (t.pc = "done" /\ t.out.st = "threw")
                    => /\ t.attempt = cr.opts.retryAttempts
                       /\ DOMAIN cr.results[b].val = DOMAIN cr.batches[b]
                       /\ \A i \in DOMAIN cr.batches[b] :
                             cr.results[b].val[i]
                               = [success |-> FALSE, error |-> t.out.err,
                                  item |-> cr.batches[b][i]]
              /\ (t.pc = "done" /\ t.out.st = "returned"
                   /\ cr.class # "UnguardedOperation")
                    => /\ DOMAIN cr.results[b].val = DOMAIN cr.batches[b]
                       /\ \A i \in DOMAIN cr.batches[b] :
                             cr.results[b].val[i]
                               = OwnResult(cr.class, cr.opts, cr.batches[b][i])
              /\ (t.pc = "done" /\ t.out.st = "returned"
                   /\ cr.class = "UnguardedOperation")
                    => /\ DOMAIN cr.results[b].val = DOMAIN cr.batches[b]
                       /\ \A i \in DOMAIN cr.batches[b] :
                             cr.results[b].val[i]
                               = [success |-> TRUE, error |-> "",
                                  item |-> cr.batches[b][i]]
        /\ (cr.pc = "returned" /\ cr.summary.hasResults)
              => \A b \in DOMAIN cr.tasks : cr.tasks[b].pc = "done"

\* C9 witness: a call has returned in which one batch failed after its
\* last attempt and another batch's handler returned successes.
C9_Witness ==
    \E c \in Calls :
        /\ calls[c].pc = "returned"
        /\ \E b1, b2 \in DOMAIN calls[c].tasks :
              /\ calls[c].tasks[b1].out.st = "threw"
              /\ calls[c].tasks[b1].attempt = 2
              /\ calls[c].tasks[b2].out.st = "returned"
              /\ calls[c].results[b2].val[1].success
              /\ ~calls[c].results[b1].val[1].success

\* C10: in the Create, Update, Delete and Custom handlers a failing
\* collaborator call or a rejecting validateItem fails that item only:
\* the handler's list has one result per batch item in batch order, each
\* item's result is the one it gets whatever its siblings do, and every
\* item that passed its checks was handed to the collaborator once.
C10_ItemFailureIsolated ==
    \A c \in Calls :
        LET cr == calls[c] IN
        \A b \in DOMAIN cr.tasks :
            LET t == cr.tasks[b] IN
            (cr.class \in StandardClasses /\ t.pc = "done" /\ cr.opts.hasCollaborator)
                => /\ t.out.st = "returned"
                   /\ Len(cr.results[b].val) = Len(cr.batches[b])
                   /\ \A i \in DOMAIN cr.batches[b] :
                         LET item == cr.batches[b][i]
                             checked == PreCheck(cr.class, cr.opts, item) = ""
                         IN
                         /\ cr.results[b].val[i].item = item
                         /\ cr.results[b].val[i].success
                               = (checked /\ item.fate = "ok")
                         /\ cr.results[b].val[i] = OwnResult(cr.class, cr.opts, item)
                         /\ t.calls[i] = (IF checked THEN 1 ELSE 0)

\* C10 witness: a handler's batch of two items is done, the collaborator
\* failed for the first item and the second item succeeded.
C10_Witness ==
    \E c \in Calls :
        \E b \in DOMAIN calls[c].tasks :
            /\ calls[c].class \in StandardClasses
            /\ calls[c].tasks[b].pc = "done"
            /\ Len(calls[c].batches[b]) = 2
            /\ calls[c].batches[b][1].fate = "fail"
            /\ calls[c].tasks[b].calls[1] = 1
            /\ ~calls[c].results[b].val[1].success
            /\ calls[c].results[b].val[2].success

\* The batches of a call joined in index order.
RECURSIVE Concatenation(_)
Concatenation(batches) ==
    IF Len(batches) = 0 THEN <<>>
    ELSE Head(batches) \o Concatenation(Tail(batches))

\* The call has partitioned its items: it is in the admission loop or has
\* come out of it.
Partitioned(cr) ==
    cr.pc \in {"admit", "sleep"} \/ (cr.pc = "returned" /\ cr.tasks # <<>>)

\* C11: partitioning n items with batchSize b gives ceil(n/b) batches, each
\* but the last of exactly b items, the last of n - b*floor(n/b) items (b
\* when b divides n); batch k holds the items from position (k-1)*b on, in
\* order, and the batches joined in index order are the input sequence.
C11_PartitionShape ==
    \A c \in Calls :
        LET cr == calls[c]
            n == Len(cr.items)
            b == cr.opts.batchSize
            count == Len(cr.batches)
        IN
        Partitioned(cr)
            => /\ count = (n + b - 1) \div b
               /\ \A k \in 1..(count - 1) : Len(cr.batches[k]) = b
               /\ Len(cr.batches[count])
                     = (IF n % b = 0 THEN b ELSE n - b * (n \div b))
               /\ \A k \in 1..count :
                     \A j \in 1..Len(cr.batches[k]) :
                         cr.batches[k][j] = cr.items[(k - 1) * b + j]
               /\ Concatenation(cr.batches) = cr.items

\* C11 witness: three items were partitioned with batchSize 2 into a full
\* batch and a last batch of one item, and the call ran both.
C11_Witness ==
    \E c \in Calls :
        /\ calls[c].pc = "returned"
        /\ Len(calls[c].items) = 3
        /\ calls[c].opts.batchSize = 2
        /\ Len(calls[c].batches) = 2
        /\ Len(calls[c].batches[1]) = 2
        /\ Len(calls[c].batches[2]) = 1
        /\ calls[c].tasks[2].pc = "done"

\* The sum of a sequence of numbers.
RECURSIVE Total(_)
Total(numbers) ==
    IF Len(numbers) = 0 THEN 0 ELSE Head(numbers) + Total(Tail(numbers))

\* How often a call emitted an event.
Emitted(cr, event) ==
    CASE event = "batch:start" -> cr.evBatchStart
      [] event = "batch:complete" -> cr.evBatchComplete
      [] event = "batch:error" -> cr.evBatchError
      [] event = "operation:start" ->
            Total([b \in DOMAIN cr.tasks |-> cr.tasks[b].evStart])
      [] event = "operation:complete" ->
            Total([b \in DOMAIN cr.tasks |-> cr.tasks[b].evComplete])
      [] OTHER -> Total([b \in DOMAIN cr.tasks |-> cr.tasks[b].evError])

\* The results a batch ends with when nothing but its handler and its
\* collaborator decides them.
ExpectedBatch(cr, b) ==
    LET batch == cr.batches[b] IN
    IF cr.class = "BatchOperation"
    THEN FailBatch(batch, "execute() must be implemented by subclasses")
    ELSE IF ~cr.opts.hasCollaborator
    THEN FailBatch(batch, MissingCollaborator(cr.class))
    ELSE IF cr.class = "UnguardedOperation"
    THEN IF \/ \E i \in DOMAIN batch : batch[i].fate = "fail"
            \/ Cardinality({i \in DOMAIN batch : batch[i].fate = "flaky"})
                  >= cr.opts.retryAttempts
         THEN FailBatch(batch, CollaboratorError)
         ELSE [i \in DOMAIN batch |-> Succeeded(batch[i])]
    ELSE [i \in DOMAIN batch |-> OwnResult(cr.class, cr.opts, batch[i])]

\* C14: a listener that throws never aborts or alters the job.  Every
\* listener of an event is called at each emission of it, whether or not an
\* earlier listener threw; no listener's error leaves execute or becomes a
\* summary's or a result's error; and the summary of a call that ran its
\* batches is the one its items, handler and collaborators determine, the
\* same with throwing listeners as with none.
C14_ThrowingListenerHarmless ==
    \A c \in Calls :
        LET cr == calls[c] IN
        /\ \A e \in Events :
              cr.heard[e] = Emitted(cr, e) * Len(eventListeners[e])
        /\ cr.pc = "thrown" => cr.thrown # ListenerError
        /\ cr.pc = "returned" => cr.summary.error # ListenerError
        /\ (cr.pc = "returned" /\ Partitioned(cr))
              => cr.summary
                    = (IF profiling /\ metricsCollector = "throws"
                       THEN FailureSummary("metrics failed", cr.items)
                       ELSE SuccessSummary(Concatenation(
                               [b \in DOMAIN cr.batches |-> ExpectedBatch(cr, b)])))

\* C14 witness: with a throwing listener ahead of a second listener on
\* every event, a call of two batches returned its success summary with a
\* succeeded item, and both listeners were called at each emission.
C14_Witness ==
    \E c \in Calls :
        /\ calls[c].pc = "returned"
        /\ eventListeners["operation:complete"] = <<"throws", "ok">>
        /\ eventListeners["batch:complete"] = <<"throws", "ok">>
        /\ Len(calls[c].batches) = 2
        /\ calls[c].heard["operation:start"] = 4
        /\ calls[c].heard["operation:complete"] = 4
        /\ calls[c].heard["batch:complete"] = 2
        /\ calls[c].summary.success
        /\ calls[c].summary.succeeded > 0

\* The data of the descriptors of one kind, in input order.
RECURSIVE DataOfKind(_, _)
DataOfKind(operations, kind) ==
    IF Len(operations) = 0 THEN <<>>
    ELSE (IF Head(operations).type = kind THEN <<Head(operations).data>> ELSE <<>>)
         \o DataOfKind(Tail(operations), kind)

KindsOf(operations) == {operations[i].type : i \in DOMAIN operations}

WellFormed(operations) ==
    \A i \in DOMAIN operations :
        operations[i].type # "" /\ DataTruthy(operations[i].data)

\* C12 (as stated): a batchProcess call on well-formed descriptors made one
\* execute call per distinct kind, with that kind's data in input order,
\* and its merged summary holds one ItemResult per descriptor: operations
\* is the number of descriptors, succeeded and failed are counted over the
\* merged list.
C12_OneResultPerDescriptor ==
    (job.pc = "returned" /\ config.enabled /\ Len(job.operations) > 0
     /\ WellFormed(job.operations))
        => /\ Len(calls) = Cardinality(KindsOf(job.operations))
           /\ \A k \in KindsOf(job.operations) :
                 \E c \in DOMAIN calls :
                     /\ calls[c].kind = k
                     /\ calls[c].items = DataOfKind(job.operations, k)
           /\ job.summary.operations = Len(job.operations)
           /\ Len(job.summary.results) = Len(job.operations)
           /\ job.summary.succeeded = CountSuccess(job.summary.results)
           /\ job.summary.failed = CountFailure(job.summary.results)

\* C13 (as stated): a batchProcess call given a descriptor without kind or
\* data returns the validation failure and has started nothing.
C13_MalformedFailsValidation ==
    (job.pc = "returned" /\ ~WellFormed(job.operations))
        => /\ ~job.summary.success
           /\ job.summary.error = "Each operation must have a type and data"
           /\ calls = <<>>

\* C13 (amended): on an enabled engine a batchProcess call given a
\* descriptor without kind or data returns the validation failure (nothing
\* processed, every descriptor counted as failed), and at no time is there
\* an execute call, a handler, a collaborator call or a metrics record for
\* any of its descriptors; a disabled engine answers that it is disabled,
\* and starts nothing either.
C13_MalformedStartsNothing ==
    ~WellFormed(job.operations)
        => /\ calls = <<>>
           /\ job.metricsCalls = 0
           /\ job.pc \in {"idle", "returned"}
           /\ job.pc = "returned"
                 => /\ ~job.summary.success
                    /\ job.summary.operations = 0
                    /\ job.summary.succeeded = 0
                    /\ ~job.summary.hasResults
                    /\ IF config.enabled
                       THEN /\ job.summary.error
                                 = "Each operation must have a type and data"
                            /\ job.summary.failed = Len(job.operations)
                       ELSE /\ job.summary.error = "Batch operations are disabled"
                            /\ job.summary.failed = 0

\* C13 witness: an enabled engine was given a well-formed descriptor
\* followed by one without data, and batchProcess returned the validation
\* failure without an execute call.
C13_Witness ==
    /\ job.pc = "returned"
    /\ config.enabled
    /\ Len(job.operations) = 2
    /\ job.operations[1].type = "create"
    /\ DataTruthy(job.operations[1].data)
    /\ job.operations[2].type = "create"
    /\ ~DataTruthy(job.operations[2].data)
    /\ job.summary.error = "Each operation must have a type and data"
    /\ job.summary.failed = 2
    /\ calls = <<>>

\* The successful register calls of a kind, as positions of the log.
RegistrationsOf(kind) ==
    {i \in DOMAIN factory.log : factory.log[i][1] = kind}

\* The kind was registered, at module initialisation or by the caller.
EverRegistered(kind) ==
    kind \in StandardKinds \/ RegistrationsOf(kind) # {}

\* The handler class of the most recent registration of a registered kind.
LatestRegistration(kind) ==
    IF RegistrationsOf(kind) = {} THEN StandardHandlers[kind]
    ELSE LET last == CHOOSE i \in RegistrationsOf(kind) :
                         \A j \in RegistrationsOf(kind) : j <= i
         IN factory.log[last][2]

\* C15: a register call whose kind is empty or not a string, or whose
\* handler is absent, fails with an error and leaves the registry as it
\* was, keys and values; getHandler fails for every kind that was never
\* registered.
C15_InvalidRegisterRejected ==
    LET l == factory.last IN
    /\ (l.op = "register"
        /\ (l.type = EmptyType \/ l.type = NotAString \/ l.class = NoHandler))
          => /\ l.threw
             /\ l.error \in {"Operation type must be a string",
                             "Handler class is required"}
             /\ handlers = l.before
             /\ handlerKeys = l.keysBefore
    /\ (l.op = "getHandler" /\ ~EverRegistered(l.type))
          => l.threw /\ l.value = NoHandler
    /\ \A k \in Kinds :
          ~EverRegistered(k) => GetHandlerCall(handlers, handlerKeys, k).threw

\* C15 witness: after a caller registered a kind of its own, a register
\* call for create without a handler class failed, and create still has
\* the handler of module initialisation.
C15_Witness ==
    /\ factory.last.op = "register"
    /\ factory.last.type = "create"
    /\ factory.last.class = NoHandler
    /\ factory.last.threw
    /\ Len(factory.log) = 1
    /\ factory.log[1][1] = "import"
    /\ handlers["create"] = "CreateOperation"
    /\ handlers["import"] # NoHandler

\* C16: after any sequence of successful register calls getHandler answers
\* with the handler of the kind's most recent registration, hasHandler is
\* true exactly for the kinds registered so far, getRegisteredTypes holds
\* each of them exactly once, and the four standard kinds are registered
\* from module initialisation on; no kind is ever removed.
C16_RegistryTracksRegistrations ==
    LET l == factory.last IN
    /\ \A k \in Kinds :
          /\ HasHandler(handlers, k) = EverRegistered(k)
          /\ EverRegistered(k)
                => /\ ~GetHandlerCall(handlers, handlerKeys, k).threw
                   /\ GetHandlerCall(handlers, handlerKeys, k).value
                         = LatestRegistration(k)
          /\ Cardinality({i \in DOMAIN GetRegisteredTypes(handlerKeys) :
                             GetRegisteredTypes(handlerKeys)[i] = k})
                = (IF EverRegistered(k) THEN 1 ELSE 0)
    /\ \A k \in StandardKinds : HasHandler(handlers, k)
    /\ (l.op = "getHandler" /\ EverRegistered(l.type))
          => ~l.threw /\ l.value = LatestRegistration(l.type)
    /\ l.op = "hasHandler"
          => /\ l.has = (l.type \in Kinds /\ EverRegistered(l.type))
             /\ \A k \in Kinds :
                   EverRegistered(k) = (\E i \in DOMAIN l.types : l.types[i] = k)

\* C16 witness: create was registered twice by the caller with different
\* handler classes, and getHandler answered with the second one.
C16_Witness ==
    /\ Len(factory.log) = 2
    /\ factory.log[1] = <<"create", "UnguardedOperation">>
    /\ factory.log[2] = <<"create", "BatchOperation">>
    /\ factory.last.op = "getHandler"
    /\ factory.last.type = "create"
    /\ factory.last.value = "BatchOperation"
    /\ handlerKeys = StandardKeys

\* C17 (as stated): when the metrics sink throws after all batches of a
\* call have run, execute returns the summary it returns with a sink that
\* succeeds: the success summary over the results of its batches.
C17_SinkFailureHarmless ==
    \A c \in Calls :
        LET cr == calls[c] IN
        (profiling /\ metricsCollector = "throws"
         /\ cr.pc = "returned" /\ Partitioned(cr))
            => cr.summary
                  = SuccessSummary(Concatenation(
                       [b \in DOMAIN cr.batches |-> ExpectedBatch(cr, b)]))

\* Every batch task of a call has ended.
AllBatchesDone(cr) ==
    \A b \in DOMAIN cr.tasks : cr.tasks[b].pc = "done"

\* C18 (as stated): whatever the instance options are, an execute call
\* that ran its batches and a batchProcess call whose execute calls all
\* returned have each recorded their metrics exactly once.
C18_RecordedOncePerCall ==
    /\ \A c \in DOMAIN calls :
          (calls[c].pc = "returned" /\ Partitioned(calls[c]))
              => calls[c].metricsCalls = 1
    /\ (job.pc = "returned" /\ calls # <<>>
        /\ \A c \in DOMAIN calls : calls[c].pc = "returned")
          => job.metricsCalls = 1

\* C18 (amended): with profiling on, an execute call records its metrics
\* exactly once, when it has run all its batches and not before, and a
\* batchProcess call records exactly once more, after its execute calls
\* have all returned; with profiling off nothing is ever recorded, and a
\* call that ends before its batches run records nothing.
C18_RecordedOnceWhenProfiling ==
    /\ \A c \in DOMAIN calls :
          LET cr == calls[c] IN
          /\ cr.metricsCalls
                = (IF profiling /\ cr.pc = "returned" /\ Partitioned(cr)
                   THEN 1 ELSE 0)
          /\ cr.metricsCalls > 0 => AllBatchesDone(cr)
    /\ job.metricsCalls
          = (IF profiling /\ job.pc = "returned" /\ calls # <<>>
                /\ \A c \in DOMAIN calls : calls[c].pc = "returned"
             THEN 1 ELSE 0)
    /\ job.metricsCalls > 0
          => \A c \in DOMAIN calls : AllBatchesDone(calls[c])

\* C18 witness: with profiling on, a batchProcess call over two kinds
\* returned its merged summary; one of its execute calls ran two batches;
\* each execute call recorded once and batchProcess recorded once.
C18_Witness ==
    /\ profiling
    /\ job.pc = "returned"
    /\ job.summary.success
    /\ Len(calls) = 2
    /\ \E c \in DOMAIN calls : Len(calls[c].batches) = 2
    /\ \A c \in DOMAIN calls : calls[c].metricsCalls = 1
    /\ job.metricsCalls = 1

\* C19: when batchUpdateWithOptimalSize on ten or more items has measured
\* its sample, whatever the duration (0 included) and the item count, the
\* batch size it derives lies in [5, 100] and the concurrency in
\* [1, maxConcurrent of the instance]; the batch size is 500 / costPerItem
\* rounded to the nearest integer and clamped (100 for a duration of 0),
\* the concurrency is costPerItem * totalItems / 5000 rounded up and
\* clamped, where costPerItem is the duration divided by the sample size.
C19_DerivedSizesInRange ==
    (job.phase = "full" /\ config.maxConcurrent >= 1)
        => LET d == job.testDuration
               n == Len(job.items)
               s == Len(calls[1].items)
               mc == config.maxConcurrent
               size == calls[2].options.batchSize
               conc == calls[2].options.maxConcurrent
           IN
           /\ n >= 10
           /\ size \in 5..100
           /\ conc \in 1..mc
           /\ d = 0 => size = 100
           /\ d < 0 => size = 5
           /\ d > 0 =>
                 IF 2 * 500 * s < 11 * d THEN size = 5
                 ELSE IF 2 * 500 * s >= 199 * d THEN size = 100
                 ELSE /\ (2 * size - 1) * d <= 2 * 500 * s
                      /\ 2 * 500 * s < (2 * size + 1) * d
           /\ IF d * n <= 5000 * s THEN conc = 1
              ELSE IF d * n > (mc - 1) * 5000 * s THEN conc = mc
              ELSE /\ (conc - 1) * 5000 * s < d * n
                   /\ d * n <= conc * 5000 * s

\* C19 witness: a sample of five items took 6000 ms on an instance with
\* maxConcurrent 5; for ten items the derived batch size is the lower
\* limit 5 and the derived concurrency is 3, and the full run returned.
C19_Witness ==
    /\ job.phase = "full"
    /\ job.pc = "returned"
    /\ job.testDuration = 6000
    /\ Len(job.items) = 10
    /\ config.maxConcurrent = 5
    /\ calls[2].options.batchSize = 5
    /\ calls[2].options.maxConcurrent = 3

\* The sample run failed: it threw, returned a failed summary, or failed
\* for some of its items.
SampleFailed(cr) ==
    cr.pc = "thrown"
    \/ (cr.pc = "returned" /\ (~cr.summary.success \/ cr.summary.failed > 0))

C21_SmallInputDelegates ==
    (job.op = "batchUpdateWithOptimalSize" /\ Len(job.items) < 10)
        => /\ job.phase \in {"none", "direct"}
           /\ job.pc # "idle" =>
                 /\ Len(calls) = 1
                 /\ calls[1].kind = "update"
                 /\ calls[1].items = job.items
                 /\ calls[1].options = job.options
           /\ job.pc # "thrown"
           /\ job.pc = "returned" =>
                 /\ calls[1].pc = "returned"
                 /\ job.summary = calls[1].summary

\* C21 witness: nine items were given, the one update call ran them in a
\* single batch under the default sizes, and its summary of nine results
\* was returned.
C21_Witness ==
    /\ job.op = "batchUpdateWithOptimalSize"
    /\ Len(job.items) = 9
    /\ job.pc = "returned"
    /\ Len(calls) = 1
    /\ calls[1].opts.batchSize = DefaultBatchSize
    /\ Len(calls[1].batches) = 1
    /\ job.summary.operations = 9
    /\ job.summary.succeeded = 8

\* A record that carries the identifier field, whatever its value.
CarriesId(item) == item.obj /\ item.id # NoId

\* The tasks of the calls the handler of the given class ran to the end
\* with its collaborator.
HandledBy(class) ==
    {<<c, b>> \in (DOMAIN calls) \X BatchIds :
        /\ calls[c].class = class
        /\ calls[c].opts.hasCollaborator
        /\ b \in DOMAIN calls[c].tasks
        /\ calls[c].tasks[b].pc = "done"}

\* C22: in the Update handler an item without the identifier field gets a
\* failed result, never reaches repository.update, raises nothing and does
\* not stop the items after it; every item that carries an identifier is
\* passed to repository.update exactly once.
C22_UpdateCallsEveryIdentified ==
    \A x \in HandledBy("UpdateOperation") :
        LET cr == calls[x[1]]
            t == cr.tasks[x[2]]
            batch == cr.batches[x[2]]
            res == cr.results[x[2]].val
        IN /\ t.out.st = "returned"
           /\ Len(res) = Len(batch)
           /\ \A i \in DOMAIN batch :
                 /\ res[i].item = batch[i]
                 /\ ~CarriesId(batch[i]) =>
                       t.calls[i] = 0 /\ ~res[i].success
                 /\ CarriesId(batch[i]) => t.calls[i] = 1

\* C23: the Delete handler calls repository.delete exactly once for every
\* raw identifier and for every record that carries the identifier field,
\* and the item's result is the outcome of that call.
C23_DeleteCallsEveryIdentifier ==
    \A x \in HandledBy("DeleteOperation") :
        LET cr == calls[x[1]]
            t == cr.tasks[x[2]]
            batch == cr.batches[x[2]]
            res == cr.results[x[2]].val
        IN /\ Len(res) = Len(batch)
           /\ \A i \in DOMAIN batch :
                 (~batch[i].obj \/ CarriesId(batch[i])) =>
                     /\ t.calls[i] = 1
                     /\ res[i].item = batch[i]
                     /\ res[i].success = (batch[i].fate = "ok")

\* C24: every execute call comes to an end, whatever non-negative
\* maxConcurrent, batchSize and retryAttempts it runs with (the model's
\* collaborators and timers always come back).
C24_ExecuteTerminates ==
    <>(\A c \in DOMAIN calls : calls[c].pc \in {"returned", "thrown"})

\* C25: a slot of the results array is written at most once, by the task of
\* its own batch when that task ends: with what the handler returned or
\* with the failures made up in the catch block.  When the call has gone
\* past flat() every slot has been written.
C25_SlotWrittenOnceByOwnTask ==
    \A c \in DOMAIN calls :
        LET cr == calls[c] IN
        /\ \A b \in DOMAIN cr.results :
              LET slot == cr.results[b]
                  t == cr.tasks[b]
              IN /\ slot.writes <= 1
                 /\ slot.writes = 1 <=> t.pc = "done"
                 /\ slot.writes = 1 =>
                       /\ Len(slot.val) = Len(cr.batches[b])
                       /\ \A i \in DOMAIN slot.val :
                             slot.val[i].item = cr.batches[b][i]
                       /\ IF t.out.st = "returned"
                          THEN slot.val = t.out.acc /\ t.evError = 0
                          ELSE /\ slot.val = FailBatch(cr.batches[b], t.out.err)
                               /\ t.evComplete = 0
        /\ cr.pc \in {"returned", "thrown"} =>
              \A b \in DOMAIN cr.results : cr.results[b].writes = 1

\* C25 witness: two batches ran at the same time and the later one ended
\* first; the earlier slot holds the failures of the catch block, the later
\* one what the handler returned, and the call has returned.
C25_Witness ==
    \E c \in DOMAIN calls :
        /\ calls[c].pc = "returned"
        /\ \E b1, b2 \in DOMAIN calls[c].tasks :
              /\ b1 < b2
              /\ calls[c].tasks[b2].order < calls[c].tasks[b1].order
              /\ calls[c].tasks[b1].out.st = "threw"
              /\ calls[c].tasks[b2].out.st = "returned"
              /\ calls[c].results[b1].writes = 1
              /\ calls[c].results[b2].writes = 1
              /\ ~calls[c].results[b1].val[1].success

\* The attempt at which the handler first returns for a batch, 0 if it
\* never does: a handler without its collaborator and the abstract one
\* always throw, a handler that lets collaborator errors escape throws once
\* for every item that fails the first time only and always for an item
\* that always fails, and the standard handlers return at once.
FirstSuccess(cr, b) ==
    LET batch == cr.batches[b] IN
    IF AlwaysFails(cr) THEN 0
    ELSE IF cr.class # "UnguardedOperation" THEN 1
    ELSE IF \E i \in DOMAIN batch : batch[i].fate = "fail" THEN 0
    ELSE 1 + Cardinality({i \in DOMAIN batch : batch[i].fate = "flaky"})

\* C26: _executeWithRetry invokes the handler until its first success or
\* until maxAttempts attempts have failed.  A handler that first succeeds
\* on attempt k <= maxAttempts is invoked exactly k times and its results
\* are the batch's; otherwise it is invoked maxAttempts times and the last
\* error becomes the batch's.  A backoff sleep follows every failed attempt
\* but the last one, and no success.
C26_RetryUntilFirstSuccess ==
    \A c \in DOMAIN calls :
        LET cr == calls[c]
            m == cr.opts.retryAttempts
        IN
        \A b \in DOMAIN cr.tasks :
            LET t == cr.tasks[b]
                k == FirstSuccess(cr, b)
            IN
            /\ t.pc = "backoff" =>
                  /\ t.out.st = "threw"
                  /\ t.invocations < m
                  /\ t.backoffs = t.invocations
            /\ t.pc \in {"awaiting", "settled", "done"} =>
                  t.backoffs = (IF t.invocations = 0 THEN 0 ELSE t.invocations - 1)
            /\ (t.pc = "done" /\ k \in 1..m) =>
                  /\ t.out.st = "returned"
                  /\ t.invocations = k
                  /\ cr.results[b].val = t.out.acc
            /\ (t.pc = "done" /\ k \notin 1..m) =>
                  /\ t.out.st = "threw"
                  /\ t.invocations = m
                  /\ t.backoffs = m - 1
                  /\ cr.results[b].val = FailBatch(cr.batches[b], t.out.err)

\* C26 witness: a batch whose handler threw on the first attempt and
\* returned on the second is done after two invocations and one backoff
\* sleep, with the results of the second attempt.
C26_Witness ==
    \E c \in DOMAIN calls :
        \E b \in DOMAIN calls[c].tasks :
            /\ calls[c].tasks[b].pc = "done"
            /\ calls[c].opts.retryAttempts >= 2
            /\ FirstSuccess(calls[c], b) = 2
            /\ calls[c].tasks[b].invocations = 2
            /\ calls[c].tasks[b].backoffs = 1
            /\ calls[c].tasks[b].out.st = "returned"
            /\ \A i \in DOMAIN calls[c].results[b].val :
                  calls[c].results[b].val[i].success

\* C27: retry is by batch only.  A handler invocation that returns is not
\* retried, whatever failures its results hold: a batch whose handler
\* returns at the first attempt sees one invocation and at most one
\* collaborator call per item.  An attempt made after a failed one runs
\* the whole batch again: an item reached in every attempt, its own
\* collaborator call having succeeded or not, has had one collaborator call
\* per attempt.
C27_RetryIsBatchGranular ==
    \A c \in DOMAIN calls :
        LET cr == calls[c] IN
        \A b \in DOMAIN cr.tasks :
            LET t == cr.tasks[b]
                batch == cr.batches[b]
            IN
            /\ FirstSuccess(cr, b) = 1 =>
                  /\ t.invocations <= 1
                  /\ \A i \in DOMAIN batch : t.calls[i] <= 1
                  /\ t.pc = "done" =>
                        t.invocations = 1 /\ cr.results[b].val = t.out.acc
            /\ (cr.class = "UnguardedOperation" /\ cr.opts.hasCollaborator
                /\ t.pc = "done") =>
                  \A i \in DOMAIN batch :
                      (\A j \in 1..(i - 1) : batch[j].fate = "ok")
                          => t.calls[i] = t.invocations

\* C27 witness: with retries allowed a standard handler returned a failed
\* result for an item whose collaborator call would have succeeded the
\* second time; the batch is done after one invocation and one call.
C27_Witness ==
    \E c \in DOMAIN calls :
        \E b \in DOMAIN calls[c].tasks :
            /\ calls[c].class \in StandardClasses
            /\ calls[c].opts.retryAttempts >= 2
            /\ calls[c].tasks[b].pc = "done"
            /\ calls[c].tasks[b].invocations = 1
            /\ \E i \in DOMAIN calls[c].batches[b] :
                  /\ calls[c].batches[b][i].fate = "flaky"
                  /\ calls[c].tasks[b].calls[i] = 1
                  /\ ~calls[c].results[b].val[i].success

\* The order of the lifecycle events of a call, as far as it has run:
\* operation events only after batch:start; per batch at most one
\* operation:start and, after it, at most one of operation:complete and
\* operation:error, emitted when the batch ends (operation:error if and only
\* if the handler had not returned); batch:complete at most once and only
\* after the terminal event of every batch; never both batch:complete and
\* batch:error; and exactly one of them when the call has ended after
\* batch:start.
EventOrder(cr) ==
    /\ cr.evBatchStart <= 1 /\ cr.evBatchComplete <= 1 /\ cr.evBatchError <= 1
    /\ cr.evBatchComplete + cr.evBatchError <= cr.evBatchStart
    /\ \A b \in DOMAIN cr.tasks :
          LET t == cr.tasks[b] IN
          /\ t.evStart <= cr.evBatchStart
          /\ t.evStart = (IF t.pc = "new" THEN 0 ELSE 1)
          /\ t.evComplete + t.evError = (IF t.pc = "done" THEN 1 ELSE 0)
          /\ t.evError = 1 <=> (t.pc = "done" /\ t.out.st # "returned")
    /\ cr.evBatchComplete = 1 =>
          \A b \in DOMAIN cr.tasks :
              cr.tasks[b].evStart = 1
              /\ cr.tasks[b].evComplete + cr.tasks[b].evError = 1
    /\ (cr.pc \in {"returned", "thrown"} /\ cr.evBatchStart = 1) =>
          cr.evBatchComplete + cr.evBatchError = 1

\* Every event the call owes after batch:start has been emitted: one
\* operation:start and one terminal event for every batch, then one of
\* batch:complete and batch:error.
EventsEmitted(cr) ==
    /\ cr.evBatchComplete + cr.evBatchError = 1
    /\ cr.evBatchComplete = 1 =>
          /\ Len(cr.tasks) = Len(Partition(cr.items, 0, Max(cr.opts.batchSize, 1)))
          /\ \A b \in DOMAIN cr.tasks :
                cr.tasks[b].evStart = 1
                /\ cr.tasks[b].evComplete + cr.tasks[b].evError = 1

\* C28: the lifecycle events of an execute call come in order: batch:start
\* once and before any operation:start; for every batch one operation:start
\* and after it one of operation:complete and operation:error
\* (operation:error exactly when the batch failed after its retries);
\* batch:complete once, after the terminal event of every batch; and a call
\* that emitted batch:start has emitted exactly one of batch:complete and
\* batch:error when it ends.
C28_LifecycleOrder ==
    \A c \in DOMAIN calls :
        /\ EventOrder(calls[c])
        /\ (calls[c].pc \in {"returned", "thrown"} /\ calls[c].evBatchStart = 1)
              => EventsEmitted(calls[c])

\* C28 witness: a call of two batches has returned after batch:start, two
\* operation:start, an operation:error for the first batch, an
\* operation:complete for the second and batch:complete, each heard by the
\* two listeners of its event.
C28_Witness ==
    \E c \in DOMAIN calls :
        /\ calls[c].pc = "returned"
        /\ Len(calls[c].tasks) = 2
        /\ calls[c].evBatchStart = 1 /\ calls[c].evBatchComplete = 1
        /\ calls[c].evBatchError = 0
        /\ calls[c].tasks[1].evStart = 1 /\ calls[c].tasks[1].evError = 1
        /\ calls[c].tasks[2].evStart = 1 /\ calls[c].tasks[2].evComplete = 1
        /\ calls[c].heard["operation:start"] = 4
        /\ calls[c].heard["batch:complete"] = 2

\* The items of a task's batch whose collaborator call is under way.
Outstanding(t) == {i \in DOMAIN t.calls : t.calls[i] > t.answered[i]}

\* C29: within a handler invocation the items are processed one after the
\* other in batch order: a collaborator call for an item begins only when
\* the call of the same invocation for every earlier item has come back,
\* so a task has at most one call under way and calls that overlap belong
\* to different batches.
C29_SequentialWithinBatch ==
    \A c \in DOMAIN calls :
        LET cr == calls[c] IN
        \A b \in DOMAIN cr.tasks :
            LET t == cr.tasks[b]
                batch == cr.batches[b]
                called == {i \in DOMAIN batch : PreCheck(cr.class, cr.opts, batch[i]) = ""}
            IN
            /\ Cardinality(Outstanding(t)) <= 1
            /\ \A i \in DOMAIN batch :
                  /\ t.answered[i] <= t.calls[i]
                  /\ t.calls[i] <= t.answered[i] + 1
                  /\ i \in Outstanding(t) => t.pc = "awaiting" /\ t.pos = i
                  /\ i \notin called => t.calls[i] = 0
            /\ \A i, j \in called : i < j => t.calls[j] <= t.answered[i]

\* C29 witness: two batches are at their collaborators at the same time,
\* the first at its second item after the call for its first item came
\* back, the second at its first item.
C29_Witness ==
    \E c \in DOMAIN calls :
        /\ Len(calls[c].tasks) >= 2
        /\ Len(calls[c].batches[1]) = 2
        /\ Outstanding(calls[c].tasks[1]) = {2}
        /\ calls[c].tasks[1].calls[1] = 1
        /\ calls[c].tasks[1].answered[1] = 1
        /\ Outstanding(calls[c].tasks[2]) = {1}

\* The value of a size that the claimed precedence picks: that of the first
\* of the given options objects that has it, otherwise the default.
ConfigFields == {"maxConcurrent", "batchSize", "retryAttempts", "retryDelay"}

ClaimedDefault(field) ==
    CASE field = "maxConcurrent" -> 5
      [] field = "batchSize" -> 50
      [] field = "retryAttempts" -> 3
      [] OTHER -> 1000

RECURSIVE FirstGiven(_, _)
FirstGiven(field, levels) ==
    IF levels = <<>> THEN ClaimedDefault(field)
    ELSE IF Head(levels)[field] # Unset THEN Head(levels)[field]
    ELSE FirstGiven(field, Tail(levels))

C31_NoStateBetweenCalls ==
    [][/\ job.op # "constructor" =>
            /\ config' = config
            /\ profiling' = profiling
            /\ eventListeners' = eventListeners
            /\ <<handlers, handlerKeys, factory>>' = <<handlers, handlerKeys, factory>>
       /\ \A c \in DOMAIN calls' :
             calls'[c].evBatchStart = 1 =>
                 \A f \in ConfigFields :
                     calls'[c].opts[f] =
                         (IF calls'[c].options[f] # Unset
                          THEN calls'[c].options[f]
                          ELSE FirstGiven(f, <<job'.ctor>>))]_vars

\* C31 witness: an execute call that was given a batch size, a retry count
\* and a collaborator has returned, and the config still holds the sizes
\* the constructor was given.
C31_Witness ==
    /\ job.op = "execute"
    /\ calls[1].pc = "returned" /\ calls[1].summary.succeeded = 3
    /\ calls[1].options.batchSize = 3 /\ calls[1].options.maxConcurrent = Unset
    /\ calls[1].opts.batchSize = 3 /\ calls[1].opts.maxConcurrent = 2
    /\ config.batchSize = 2 /\ config.maxConcurrent = 2

\* The call is about to run with maxConcurrent, batchSize and retryAttempts
\* all at least 1.
SizesPositive(c) ==
    /\ c \in DOMAIN calls
    /\ calls[c].pc = "idle"
    /\ MergeOptions(config, calls[c].options).maxConcurrent >= 1
    /\ MergeOptions(config, calls[c].options).batchSize >= 1
    /\ MergeOptions(config, calls[c].options).retryAttempts >= 1

Ended(c) == calls[c].pc \in {"returned", "thrown"}

\* Every batch of the call's partition was admitted and its task has ended,
\* the cursor is at the batch count and nothing is active.
EveryBatchFinished(c) ==
    LET cr == calls[c] IN
    /\ cr.evBatchStart = 1 /\ cr.evBatchComplete = 1 =>
          Len(cr.tasks) = Len(Partition(cr.items, 0, cr.opts.batchSize))
    /\ \A b \in DOMAIN cr.tasks :
          cr.tasks[b].evStart = 1 /\ cr.tasks[b].pc = "done"
    /\ cr.nextBatchIndex = Len(cr.tasks)
    /\ cr.active = 0

\* C32: with maxConcurrent, batchSize and retryAttempts at least 1 (the
\* model's collaborator calls and timers always come back) the execute call
\* ends, and whenever it has ended every batch was admitted and has
\* finished, the next-batch cursor equals the batch count and the active
\* counter is 0.
C32_EveryBatchFinishes ==
    \A c \in Calls :
        SizesPositive(c) => (<>Ended(c) /\ [](Ended(c) => EveryBatchFinished(c)))

\* C32 witness: a call of three batches under maxConcurrent 1 and
\* retryAttempts 2 has returned; its second batch was retried, all three
\* are done, the cursor is 3 and nothing is active.
C32_Witness ==
    /\ calls[1].pc = "returned"
    /\ calls[1].opts.maxConcurrent = 1 /\ calls[1].opts.retryAttempts = 2
    /\ Len(calls[1].tasks) = 3
    /\ \A b \in 1..3 : calls[1].tasks[b].pc = "done"
    /\ calls[1].tasks[2].invocations = 2
    /\ calls[1].nextBatchIndex = 3
    /\ calls[1].active = 0

\* C33: the active counter of a call is never negative and equals the
\* number of its batch tasks that have started and not yet ended, whichever
\* way a task ends: its handler returned, its retries were used up, or its
\* retry loop made no attempt (the task's promise is then rejected).
C33_ActiveCountsRunningTasks ==
    \A c \in DOMAIN calls :
        /\ calls[c].active >= 0
        /\ calls[c].active = Cardinality(InFlight(calls[c]))

\* The items a collaborator has processed successfully on behalf of the
\* execute calls so far.
ProcessedItems ==
    {<<c, b, i>> \in (DOMAIN calls) \X BatchIds \X (1..MaxDescriptors) :
        /\ b \in DOMAIN calls[c].tasks
        /\ i \in DOMAIN calls[c].batches[b]
        /\ calls[c].tasks[b].answered[i] > 0
        /\ ~CollaboratorFails(calls[c].batches[b][i], calls[c].tasks[b].answered[i])}

\* C34: once batchProcess has returned its summary every execute call it
\* started has settled, no batch task of it is in flight and no collaborator
\* call is under way or still to come; and a summary that counts every
\* descriptor as failed means that no collaborator processed an item.
C34_NothingRunsAfterReturn ==
    (job.op = "batchProcess" /\ job.pc = "returned") =>
        /\ \A c \in DOMAIN calls :
              /\ calls[c].pc \in {"returned", "thrown"}
              /\ InFlight(calls[c]) = {}
              /\ \A b \in DOMAIN calls[c].tasks :
                    Outstanding(calls[c].tasks[b]) = {}
        /\ (Len(job.operations) > 0
            /\ job.summary.failed = Len(job.operations)) => ProcessedItems = {}

\* The batch tasks in flight over all the execute calls of the job.
InFlightOverall ==
    {<<c, b>> \in (DOMAIN calls) \X BatchIds : b \in InFlight(calls[c])}

\* C35: in batchProcess the admission bound holds per kind: the run of a
\* kind never has more than maxConcurrent batches in flight, and the
\* batches in flight over all the kinds of the call never exceed
\* maxConcurrent times the number of distinct kinds.
C35_AdmissionBoundPerKind ==
    job.op = "batchProcess" =>
        /\ \A c \in DOMAIN calls :
              Cardinality(InFlight(calls[c])) <= calls[c].opts.maxConcurrent
        /\ Cardinality(InFlightOverall)
              <= MergeOptions(config, job.options).maxConcurrent
                    * Cardinality({calls[c].kind : c \in DOMAIN calls})

\* Two kinds run side by side, each with as many batches in flight as
\* maxConcurrent allows and one of them with a batch still waiting: more
\* batches are in flight than one kind alone may have.
C35_Witness ==
    /\ job.op = "batchProcess"
    /\ Cardinality({calls[c].kind : c \in DOMAIN calls}) = 2
    /\ \A c \in DOMAIN calls :
          Cardinality(InFlight(calls[c])) = calls[c].opts.maxConcurrent
    /\ \E c \in DOMAIN calls : calls[c].nextBatchIndex < Len(calls[c].batches)
    /\ Cardinality(InFlightOverall)
          > MergeOptions(config, job.options).maxConcurrent

\* The items of a sequence of results, in order.
ItemsOf(results) == [i \in DOMAIN results |-> results[i].item]

\* The batch tasks of a call that were started and have not given their
\* place back.
Holding(cr) ==
    {b \in DOMAIN cr.tasks : cr.tasks[b].pc \notin {"new", "done"}}

\* C36: two execute calls running side by side on one instance keep their
\* state apart under every interleaving of their batch tasks: each call's
\* cursor counts the batches it started itself, its active counter the
\* tasks it started itself and that have not given their place back, each
\* slot of its results array holds the results of its own batch of that
\* index, and a call that returns results returns them for exactly its own
\* items in its own input order.
C36_ConcurrentCallsIndependent ==
    \A c \in DOMAIN calls :
        LET cr == calls[c] IN
        /\ Partitioned(cr) => Concatenation(cr.batches) = cr.items
        /\ cr.nextBatchIndex
              = Cardinality({b \in DOMAIN cr.tasks : cr.tasks[b].pc # "new"})
        /\ cr.active = Cardinality(Holding(cr))
        /\ \A b \in DOMAIN cr.results :
              /\ cr.results[b].writes <= 1
              /\ cr.results[b].writes = 1
                    => ItemsOf(cr.results[b].val) = cr.batches[b]
        /\ (cr.pc = "returned" /\ cr.summary.hasResults)
              => ItemsOf(cr.summary.results) = cr.items

\* The second call, started after the first, has returned the results of
\* its two batches while the first call, whose first batch is in a retry,
\* has stored the results of its second batch and has its first batch
\* still in flight.
C36_Witness ==
    /\ DOMAIN calls = SizingCalls
    /\ calls[2].pc = "returned" /\ calls[2].summary.hasResults
    /\ Len(calls[2].batches) = MaxBatch
    /\ calls[1].pc \in {"admit", "sleep"}
    /\ Len(calls[1].batches) = MaxBatch
    /\ calls[1].tasks[1].backoffs > 0
    /\ 1 \in InFlight(calls[1])
    /\ calls[1].results[MaxBatch].writes = 1
    /\ calls[1].items # calls[2].items

\* The calls of repository.update the execute call c has begun for item.
UpdateCalls(c, item) ==
    LET cr == calls[c]
        at == {x \in BatchIds \X (1..MaxOptimalItems) :
                  /\ x[1] \in DOMAIN cr.tasks
                  /\ x[2] \in DOMAIN cr.batches[x[1]]
                  /\ cr.batches[x[1]][x[2]] = item}
    IN IF at = {} THEN 0
       ELSE LET x == CHOOSE y \in at : TRUE IN cr.tasks[x[1]].calls[x[2]]

\* No batch of the execute calls made so far was retried.
NoBatchRetry ==
    \A c \in DOMAIN calls :
        \A b \in DOMAIN calls[c].tasks : calls[c].tasks[b].invocations <= 1

C38_InProgressClearedAtReturn ==
    /\ ~Synchronizing(memoryBridge) => ~memoryBridge.syncState.inProgress
    /\ \A o \in DOMAIN memoryBridge.ops :
          memoryBridge.ops[o].result = "skipped" => memoryBridge.ops[o].overlapped

\* C39: at most one interval timer of the instance is active, whatever
\* initializeAutoMirroring and stopAutoMirroring calls were made and however
\* they overlapped, and it is the one syncIntervalId names: once
\* stopAutoMirroring has cleared syncIntervalId no timer is active.
C39_AtMostOneTimer ==
    /\ Cardinality(memoryBridge.timers) <= 1
    /\ \A t \in memoryBridge.timers : t.id = memoryBridge.syncIntervalId

\* The step is the answer of _sendToMemorySystem to the call o.
Answered(o) ==
    /\ o \in DOMAIN memoryBridge.ops
    /\ memoryBridge.ops[o].pc = "sending"
    /\ memoryBridge'.ops[o] # memoryBridge.ops[o]

====
